---------------------------- MODULE Spec2Model ----------------------------
(***************************************************************************)
(* The versioned pricing ledger of ionity-prices (mongo_db_pricing.py):    *)
(* the pricing collection, the PricingModel facts and the operations       *)
(* insert_pricing, get_current_pricing, get_pricing_history and            *)
(* update_pricing.                                                         *)
(*                                                                         *)
(* Time is counted in clock units; an hour has UnitsPerHour units, so that *)
(* "floor to the hour" is observable.  Amounts are counted in minor units. *)
(***************************************************************************)
EXTENDS Integers, Sequences, FiniteSets, TLC

VARIABLES
    store,      \* db.pricing: the documents, in insertion (natural) order
    now,        \* datetime.now(ZoneInfo("UTC")), in clock units
    pc,         \* per writer: where its update_pricing call stands
    loc,        \* per writer: the locals of its update_pricing call
    last,       \* the ledger call (or step of a call) that has just returned,
                \* with its outcome; NoCall once the clock has moved on
    pre,        \* the store as it was before that call (or step)
    misused     \* the keys for which insert_pricing was called while the key
                \* had a current fact (the caller's duty is to rule that out)

vars == <<store, now, pc, loc, last, pre, misused>>

-----------------------------------------------------------------------------
(* Bounds of the model *)

MaxDocs == 3        \* documents the collection may hold
MaxFieldDocs == 2   \* documents the collection may hold in the field runs
MaxNow == 2         \* last clock value
UnitsPerHour == 2   \* clock units in one hour

-----------------------------------------------------------------------------
(* Values *)

\* Python's None for an Optional[float] / Optional[datetime] / Optional[str] field
None == -1

Writers == {"w1", "w2"}

\* The fields of PricingModel
Fields ==
    {"country", "currency", "provider", "pricing_model_name", "price_kWh",
     "monthly_subscription_price", "yearly_subscription_price",
     "initial_subscription_price", "version", "id", "valid_to", "valid_from"}

\* The natural keys the callers work on: <<country, provider, pricing_model_name>>
Keys ==
    { <<"Hungary", "Ionity", "Power">>, <<"Hungary", "Ionity", "Motion">> }

\* A fact as the callers assemble it for a key: version 1, no id, no valid_to,
\* no deprecated initial_subscription_price.  (The tests pass valid_from =
\* None, the scraper its run timestamp; both ledger writes override it.)
Observation(k) ==
    [country |-> k[1], provider |-> k[2], pricing_model_name |-> k[3],
     currency |-> "€", price_kWh |-> 1,
     monthly_subscription_price |-> None, yearly_subscription_price |-> 1,
     initial_subscription_price |-> None,
     version |-> 1, id |-> None, valid_to |-> None, valid_from |-> None]

\* A fact as a caller passes it after loading it from the store
\* (test_mongo_db_pricing.py: update_pricing(db, new_data=current_pricing)):
\* it carries a version, a valid_from and, when it was archived, a valid_to
Reloaded(b) == [b EXCEPT !.version = 2, !.valid_from = 0, !.valid_to = 0]

\* What the callers of the history runs pass for a key: the observation, the
\* observation at another price, and the reloaded form of the observation
Variants(k) ==
    LET b == Observation(k) IN
    { b, [b EXCEPT !.price_kWh = 2], Reloaded(b) }

\* What the callers of the field runs pass: for the first plan the observation
\* and the facts that differ from it in one price, fee or currency field, for
\* the other plans the observation
FieldVariants(k) ==
    LET b == Observation(k) IN
    IF k[3] # "Power" THEN { b } ELSE
    { b,
      [b EXCEPT !.price_kWh = 2],
      [b EXCEPT !.currency = "HUF"],
      [b EXCEPT !.monthly_subscription_price = 1],
      [b EXCEPT !.yearly_subscription_price = None],
      [b EXCEPT !.initial_subscription_price = 1] }

\* check_currency_country_relationship: the countries a mapped currency allows
currency_country_map ==
    [c \in {"€", "CHF", "DKR", "NOK", "SEK", "PLN", "USD", "£", "CZK", "HUF",
            "RON", "BGN", "HRK", "ISK"} |->
        CASE c = "€" ->
                {"Germany", "France", "Italy", "Austria", "Spain", "Portugal",
                 "Netherlands", "Belgium", "Luxembourg", "Ireland", "Finland",
                 "Slovakia", "Hungary", "Greece", "Croatia", "Slovenia",
                 "Estonia", "Latvia", "Lithuania", "Malta", "Cyprus",
                 "TestCountry"}
          [] c = "CHF" -> {"Switzerland"}
          [] c = "DKR" -> {"Denmark"}
          [] c = "NOK" -> {"Norway"}
          [] c = "SEK" -> {"Sweden"}
          [] c = "PLN" -> {"Poland"}
          [] c = "USD" -> {"United States", "Canada"}
          [] c = "£" -> {"United Kingdom"}
          [] c = "CZK" -> {"Czech Republic"}
          [] c = "HUF" -> {"Hungary"}
          [] c = "RON" -> {"Romania"}
          [] c = "BGN" -> {"Bulgaria"}
          [] c = "HRK" -> {"Croatia"}
          [] c = "ISK" -> {"Iceland"}]

\* Mutant of check_currency_country_relationship: the country is looked up
\* in the default [self.country] for every currency
check_currency_country_relationship_self_default(m) ==
    m.country \in {m.country}

\* Mutant of check_currency_country_relationship: the lookup of a currency
\* outside the mapping defaults to the empty list
check_currency_country_relationship_empty_default(m) ==
    IF m.currency \in DOMAIN currency_country_map
    THEN m.country \in currency_country_map[m.currency]
    ELSE FALSE

\* currency_country_map.get(self.currency, [self.country]) contains the country
check_currency_country_relationship(m) ==
    IF m.currency \in DOMAIN currency_country_map
    THEN m.country \in currency_country_map[m.currency]
    ELSE TRUE

\* Mutant of field_constraints: the price is checked with ge instead of gt and
\* the currency only for its upper length
field_constraints_ge_price(m) ==
    /\ Len(m.country) >= 2
    /\ Len(m.currency) <= 3
    /\ m.price_kWh >= 0
    /\ m.monthly_subscription_price = None \/ m.monthly_subscription_price >= 0
    /\ m.yearly_subscription_price = None \/ m.yearly_subscription_price >= 0
    /\ m.initial_subscription_price = None \/ m.initial_subscription_price >= 0
    /\ m.version >= 1

\* The Field(...) constraints on the fields of PricingModel
field_constraints(m) ==
    /\ Len(m.country) >= 2
    /\ Len(m.currency) >= 1
    /\ Len(m.currency) <= 3
    /\ m.price_kWh > 0
    /\ m.monthly_subscription_price = None \/ m.monthly_subscription_price >= 0
    /\ m.yearly_subscription_price = None \/ m.yearly_subscription_price >= 0
    /\ m.initial_subscription_price = None \/ m.initial_subscription_price >= 0
    /\ m.version >= 1

\* PricingModel(...) succeeds: the fact can be constructed
Constructible(m) ==
    field_constraints(m) /\ check_currency_country_relationship(m)

\* The facts the callers construct and pass to the ledger
Candidates ==
    { m \in UNION { Variants(k) : k \in Keys } : Constructible(m) }

FieldCandidates ==
    { m \in UNION { FieldVariants(k) : k \in Keys } : Constructible(m) }

-----------------------------------------------------------------------------
(* The store and the pure parts of the ledger *)

\* archive_timestamp.replace(minute=0, second=0, microsecond=0)
FloorToHour(t) == t - (t % UnitsPerHour)

KeyOf(m) == <<m.country, m.provider, m.pricing_model_name>>

\* Python's a | b on dicts: b's entries win
DictMerge(a, b) == b @@ a

\* model.model_dump(exclude=...)
model_dump(m, exclude) == [f \in Fields \ exclude |-> m[f]]

\* The set update_pricing leaves out of its comparison
CompareExclude == {"id", "valid_from", "version"}

\* Mutant of insert_one: the document takes the place of the newest one
insert_one_replaces_newest(s, document) ==
    IF s = <<>> THEN <<DictMerge(document, "_id" :> 1)>>
    ELSE [s EXCEPT ![Len(s)] = DictMerge(document, "_id" :> Len(s))]

\* coll.insert_one(document): the store assigns _id and appends
insert_one(s, document) == Append(s, DictMerge(document, "_id" :> Len(s) + 1))

\* The filter of get_current_pricing
CurrentFilter(d, country, provider, pricing_model) ==
    /\ d.country = country
    /\ d.provider = provider
    /\ d.pricing_model_name = pricing_model
    /\ d.valid_to = None

\* The filter of get_pricing_history
HistoryFilter(d, country, provider, pricing_model) ==
    /\ d.country = country
    /\ d.provider = provider
    /\ d.pricing_model_name = pricing_model

\* Mutant of find_one: the filter leaves out the plan name
find_one_ignores_plan(s, country, provider, pricing_model) ==
    LET hits == { i \in 1..Len(s) : /\ s[i].country = country
                                     /\ s[i].provider = provider
                                     /\ s[i].valid_to = None }
    IN IF hits = {} THEN 0 ELSE CHOOSE i \in hits : \A j \in hits : i <= j

\* coll.find_one(filter): the position of the first matching document, 0 if none
find_one(s, country, provider, pricing_model) ==
    LET hits == { i \in 1..Len(s) : CurrentFilter(s[i], country, provider, pricing_model) }
    IN IF hits = {} THEN 0 ELSE CHOOSE i \in hits : \A j \in hits : i <= j

\* Mutant of migrate_subscription_fields: the legacy fee is read as monthly
migrate_subscription_fields_as_monthly(values) ==
    LET legacy == /\ "subscription_price" \in DOMAIN values
                  /\ "monthly_subscription_price" \notin DOMAIN values
        migrated ==
            IF ~legacy THEN values
            ELSE LET v == DictMerge(values,
                              [monthly_subscription_price |-> values["subscription_price"],
                               yearly_subscription_price |-> None])
                 IN IF "initial_subscription_price" \in DOMAIN values THEN v
                    ELSE DictMerge(v, [initial_subscription_price |->
                                          values["subscription_price"]])
        with_monthly ==
            IF "monthly_subscription_price" \in DOMAIN migrated THEN migrated
            ELSE DictMerge(migrated, [monthly_subscription_price |-> None])
    IN IF "yearly_subscription_price" \in DOMAIN with_monthly THEN with_monthly
       ELSE DictMerge(with_monthly, [yearly_subscription_price |-> None])

\* migrate_subscription_fields (mode="before"): a document with the old
\* subscription_price and no yearly_subscription_price gets yearly = the old
\* fee, monthly = None and, if it has no initial_subscription_price, initial =
\* the old fee; then absent monthly / yearly entries are set to None
migrate_subscription_fields(values) ==
    LET legacy == /\ "subscription_price" \in DOMAIN values
                  /\ "yearly_subscription_price" \notin DOMAIN values
        migrated ==
            IF ~legacy THEN values
            ELSE LET v == DictMerge(values,
                              [yearly_subscription_price |-> values["subscription_price"],
                               monthly_subscription_price |-> None])
                 IN IF "initial_subscription_price" \in DOMAIN values THEN v
                    ELSE DictMerge(v, [initial_subscription_price |->
                                          values["subscription_price"]])
        with_monthly ==
            IF "monthly_subscription_price" \in DOMAIN migrated THEN migrated
            ELSE DictMerge(migrated, [monthly_subscription_price |-> None])
    IN IF "yearly_subscription_price" \in DOMAIN with_monthly THEN with_monthly
       ELSE DictMerge(with_monthly, [yearly_subscription_price |-> None])

\* Mutant of PricingModel: loading a document drops its monthly fee
PricingModel_drops_monthly_fee(d) ==
    [f \in Fields |-> IF f = "id" THEN d["_id"]
                      ELSE IF f = "monthly_subscription_price" THEN None
                      ELSE d[f]]

\* PricingModel(**result): the document passes migrate_subscription_fields;
\* then the "_id" alias fills id, a stored "id" entry and every entry that is
\* no field are ignored, an absent optional field takes its default None,
\* every other field is taken over
PricingModel(d) ==
    LET values == migrate_subscription_fields(d) IN
    [f \in Fields |->
        IF f = "id" THEN (IF "_id" \in DOMAIN values THEN values["_id"] ELSE None)
        ELSE IF f \in DOMAIN values THEN values[f]
        ELSE None]

\* The fields of PricingModel declared without a default
RequiredFields ==
    {"country", "currency", "provider", "pricing_model_name", "price_kWh",
     "version", "valid_to", "valid_from"}

\* Mutant of model_validates: the currency-country rule is not run on load
model_validates_without_rule(d) ==
    /\ RequiredFields \subseteq DOMAIN migrate_subscription_fields(d)
    /\ field_constraints(PricingModel(d))

\* PricingModel(**result) returns: no required field is missing and the
\* field constraints and the currency-country rule hold
model_validates(d) ==
    /\ RequiredFields \subseteq DOMAIN migrate_subscription_fields(d)
    /\ Constructible(PricingModel(d))

\* get_current_pricing: <<>> for None, else <<the validated fact>>
get_current_pricing(s, country, provider, pricing_model) ==
    LET i == find_one(s, country, provider, pricing_model)
    IN IF i = 0 THEN <<>> ELSE <<PricingModel(s[i])>>

RECURSIVE SelectModels(_, _, _, _)
SelectModels(s, country, provider, pricing_model) ==
    IF s = <<>> THEN <<>>
    ELSE LET rest == SelectModels(Tail(s), country, provider, pricing_model)
         IN IF HistoryFilter(Head(s), country, provider, pricing_model)
            THEN <<PricingModel(Head(s))>> \o rest
            ELSE rest

\* get_pricing_history: every version of the key, in storage order
get_pricing_history(s, country, provider, pricing_model) ==
    SelectModels(s, country, provider, pricing_model)

\* get_current_pricing raises the validation error: the document find_one
\* returned does not validate
get_current_pricing_raises(s, country, provider, pricing_model) ==
    LET i == find_one(s, country, provider, pricing_model)
    IN i # 0 /\ ~model_validates(s[i])

\* get_pricing_history raises the validation error: one of the documents
\* find returned does not validate
get_pricing_history_raises(s, country, provider, pricing_model) ==
    \E i \in 1..Len(s) :
        /\ HistoryFilter(s[i], country, provider, pricing_model)
        /\ ~model_validates(s[i])

\* Mutant of insert_document: the candidate's version is not overridden
insert_document_keeps_version(m, t) ==
    DictMerge(model_dump(m, {}), [valid_from |-> t, valid_to |-> None])

\* The document insert_pricing builds
insert_document(m, t) ==
    DictMerge(model_dump(m, {}),
              [valid_from |-> t, valid_to |-> None, version |-> 1])

\* Mutant of no_changes: the subscription fees are left out of the comparison
no_changes_ignoring_fees(current, new_data) ==
    LET exclude == CompareExclude \cup {"monthly_subscription_price",
                                        "yearly_subscription_price"}
    IN model_dump(current, exclude) = model_dump(new_data, exclude)

\* The comparison of update_pricing: TRUE when no change is detected
no_changes(current, new_data) ==
    model_dump(current, CompareExclude) = model_dump(new_data, CompareExclude)

\* Mutant of update_one: the write sets valid_from instead of valid_to
update_one_sets_valid_from(s, id, ts) ==
    LET hits == { i \in 1..Len(s) : s[i]["_id"] = id } IN
    IF hits = {} THEN [store |-> s, matched_count |-> 0, modified_count |-> 0]
    ELSE LET i == CHOOSE i \in hits : TRUE IN
         [store |-> [s EXCEPT ![i] = DictMerge(s[i], [valid_from |-> ts])],
          matched_count |-> 1,
          modified_count |-> IF s[i].valid_from = ts THEN 0 ELSE 1]

\* Mutant of update_one: the filter is {"valid_to": None}, every current
\* document of the collection is archived
update_one_every_current(s, id, ts) ==
    LET hits == { i \in 1..Len(s) : s[i].valid_to = None } IN
    [store |-> [i \in 1..Len(s) |->
                   IF i \in hits THEN DictMerge(s[i], [valid_to |-> ts]) ELSE s[i]],
     matched_count |-> IF hits = {} THEN 0 ELSE 1,
     modified_count |-> IF hits = {} THEN 0 ELSE 1]

\* coll.update_one({"_id": id}, {"$set": {"valid_to": ts}}): the store
\* afterwards, matched_count and modified_count (a matched document whose
\* valid_to already is ts is not counted as modified)
update_one(s, id, ts) ==
    LET hits == { i \in 1..Len(s) : s[i]["_id"] = id } IN
    IF hits = {} THEN [store |-> s, matched_count |-> 0, modified_count |-> 0]
    ELSE LET i == CHOOSE i \in hits : TRUE IN
         [store |-> [s EXCEPT ![i] = DictMerge(s[i], [valid_to |-> ts])],
          matched_count |-> 1,
          modified_count |-> IF s[i].valid_to = ts THEN 0 ELSE 1]

\* Mutant of archive_failed: the check looks at matched_count
archive_failed_on_unmatched(update_result) == update_result.matched_count = 0

\* if not update_result.modified_count: raise ValueError
archive_failed(update_result) == update_result.modified_count = 0

\* Mutant of successor_document: the version is counted from the candidate
successor_document_counts_from_candidate(new_data, current, ts) ==
    DictMerge(model_dump(new_data, {}),
              [valid_from |-> ts, valid_to |-> None,
               version |-> new_data.version + 1])

\* Mutant of successor_document: the candidate's valid_from is not overridden
successor_document_keeps_valid_from(new_data, current, ts) ==
    DictMerge(model_dump(new_data, {}),
              [valid_to |-> None, version |-> current.version + 1])

\* Mutant of successor_document: the candidate's valid_to is not overridden
successor_document_keeps_valid_to(new_data, current, ts) ==
    DictMerge(model_dump(new_data, {}),
              [valid_from |-> ts, version |-> current.version + 1])

\* Mutant of successor_document: the successor repeats the archived fact
successor_document_from_current(new_data, current, ts) ==
    DictMerge(model_dump(current, {}),
              [valid_from |-> ts, valid_to |-> None,
               version |-> current.version + 1])

\* The document update_pricing inserts as the successor
successor_document(new_data, current, ts) ==
    DictMerge(model_dump(new_data, {}),
              [valid_from |-> ts, valid_to |-> None,
               version |-> current.version + 1])

-----------------------------------------------------------------------------
(* State *)

NoCall ==
    [op |-> "none", w |-> "w1", cand |-> <<>>, key |-> <<>>, outcome |-> "none",
     modified_count |-> None]

NoLocals == [new_data |-> <<>>, current |-> <<>>, ts |-> None]

Init ==
    /\ store = <<>>
    /\ now = 0
    /\ pc = [w \in Writers |-> "idle"]
    /\ loc = [w \in Writers |-> NoLocals]
    /\ last = NoCall
    /\ pre = <<>>
    /\ misused = {}

\* The clock advances between two calls; the record of the last call is dropped
Tick ==
    /\ now < MaxNow
    /\ now' = now + 1
    /\ last' = NoCall
    /\ pre' = store
    /\ UNCHANGED <<store, pc, loc, misused>>

Call(op, w, m, key, outcome, modified) ==
    [op |-> op, w |-> w, cand |-> m, key |-> key, outcome |-> outcome,
     modified_count |-> modified]

-----------------------------------------------------------------------------
(* The ledger calls of one sequential writer *)

\* Calls that have read the current fact and not yet inserted their successor
InFlight == { w \in Writers : pc[w] # "idle" }

\* insert_pricing called by writer w: one store access
insert_pricing_by(w, m) ==
    /\ pc[w] = "idle"
    /\ Len(store) + Cardinality(InFlight) < MaxDocs
    /\ store' = insert_one(store, insert_document(m, now))
    /\ pre' = store
    /\ last' = Call("insert_pricing", w, <<m>>, KeyOf(m), "ok", None)
    /\ misused' = IF find_one(store, m.country, m.provider, m.pricing_model_name) = 0
                  THEN misused
                  ELSE misused \cup {KeyOf(m)}
    /\ UNCHANGED <<now, pc, loc>>

\* insert_pricing called by the sequential writer
insert_pricing(m) == insert_pricing_by("w1", m)

\* Mutant of no_active_price: update_pricing inserts when nothing is current
no_active_price_upserts(s, new_data, t) ==
    [store |-> insert_one(s, insert_document(new_data, t)),
     outcome |-> "updated", modified_count |-> None]

\* if not current: print("No active price found"); return
no_active_price(s, new_data, t) ==
    [store |-> s, outcome |-> "no_active_price", modified_count |-> None]

\* The store and the outcome of a whole update_pricing call at time t
update_result(s, new_data, t) ==
    LET cur == get_current_pricing(s, new_data.country, new_data.provider,
                               new_data.pricing_model_name) IN
    IF cur = <<>>
    THEN no_active_price(s, new_data, t)
    ELSE IF no_changes(cur[1], new_data)
    THEN [store |-> s, outcome |-> "no_changes", modified_count |-> None]
    ELSE LET ts == FloorToHour(t)
             arch == update_one(s, cur[1].id, ts) IN
         IF archive_failed(arch)
         THEN [store |-> arch.store, outcome |-> "error",
               modified_count |-> arch.modified_count]
         ELSE [store |-> insert_one(arch.store, successor_document(new_data, cur[1], ts)),
               outcome |-> "updated", modified_count |-> arch.modified_count]

update_pricing(m) ==
    LET r == update_result(store, m, now) IN
    /\ Len(r.store) <= MaxDocs
    /\ store' = r.store
    /\ pre' = store
    /\ last' = Call("update_pricing", "w1", <<m>>, KeyOf(m), r.outcome,
                    r.modified_count)
    /\ UNCHANGED <<now, pc, loc, misused>>

Next ==
    \/ Tick
    \/ \E m \in Candidates : insert_pricing(m)
    \/ \E m \in Candidates : update_pricing(m)

Spec == Init /\ [][Next]_vars

\* The same calls with the field variants as candidates, on a smaller collection
NextFields ==
    \/ Tick
    \/ \E m \in FieldCandidates :
          insert_pricing(m) /\ Len(store') <= MaxFieldDocs
    \/ \E m \in FieldCandidates :
          update_pricing(m) /\ Len(store') <= MaxFieldDocs

SpecFields == Init /\ [][NextFields]_vars

-----------------------------------------------------------------------------
(* Concurrent writers: update_pricing is three store accesses (find_one,     *)
(* update_one, insert_one) with no transaction around them, so the calls    *)
(* of two writers interleave between the accesses.                          *)

\* update_pricing, lines 202-214: read the current fact and compare
update_pricing_read(w, m) ==
    LET cur == get_current_pricing(store, m.country, m.provider, m.pricing_model_name)
        outcome == IF cur = <<>> THEN "no_active_price"
                   ELSE IF no_changes(cur[1], m) THEN "no_changes"
                   ELSE "changed"
    IN /\ pc[w] = "idle"
       /\ Len(store) + Cardinality(InFlight) < MaxDocs
       /\ pc' = [pc EXCEPT ![w] = IF outcome = "changed" THEN "archive" ELSE "idle"]
       /\ loc' = [loc EXCEPT ![w] = IF outcome = "changed"
                                    THEN [new_data |-> <<m>>, current |-> cur, ts |-> None]
                                    ELSE NoLocals]
       /\ pre' = store
       /\ last' = Call("read", w, <<m>>, KeyOf(m), outcome, None)
       /\ UNCHANGED <<store, now, misused>>

\* update_pricing, lines 216-225: archive the fact that was read; a
\* modified_count of 0 raises ValueError and ends the call
update_pricing_archive(w) ==
    LET ts == FloorToHour(now)
        arch == update_one(store, loc[w].current[1].id, ts)
        failed == archive_failed(arch)
    IN /\ pc[w] = "archive"
       /\ store' = arch.store
       /\ pc' = [pc EXCEPT ![w] = IF failed THEN "idle" ELSE "insert"]
       /\ loc' = [loc EXCEPT ![w] = IF failed THEN NoLocals ELSE [@ EXCEPT !.ts = ts]]
       /\ pre' = store
       /\ last' = Call("archive", w, loc[w].new_data, KeyOf(loc[w].new_data[1]),
                       IF failed THEN "error" ELSE "archived", arch.modified_count)
       /\ UNCHANGED <<now, misused>>

\* update_pricing, lines 226-232: insert the successor
update_pricing_insert(w) ==
    /\ pc[w] = "insert"
    /\ store' = insert_one(store, successor_document(loc[w].new_data[1],
                                                     loc[w].current[1], loc[w].ts))
    /\ pc' = [pc EXCEPT ![w] = "idle"]
    /\ loc' = [loc EXCEPT ![w] = NoLocals]
    /\ pre' = store
    /\ last' = Call("successor", w, loc[w].new_data, KeyOf(loc[w].new_data[1]),
                    "updated", None)
    /\ UNCHANGED <<now, misused>>

NextConc ==
    \/ Tick
    \/ \E w \in Writers, m \in Candidates : insert_pricing_by(w, m)
    \/ \E w \in Writers, m \in Candidates : update_pricing_read(w, m)
    \/ \E w \in Writers : update_pricing_archive(w)
    \/ \E w \in Writers : update_pricing_insert(w)

SpecConc == Init /\ [][NextConc]_vars

\* Writers that work on different keys: each writer has a key of its own
WriterKey ==
    [w \in Writers |-> IF w = "w1" THEN <<"Hungary", "Ionity", "Power">>
                                   ELSE <<"Hungary", "Ionity", "Motion">>]

\* The store accesses of the writers interleave, each writer on its own key
NextKeys ==
    \/ Tick
    \/ \E w \in Writers, m \in Candidates :
          KeyOf(m) = WriterKey[w] /\ insert_pricing_by(w, m)
    \/ \E w \in Writers, m \in Candidates :
          KeyOf(m) = WriterKey[w] /\ update_pricing_read(w, m)
    \/ \E w \in Writers : update_pricing_archive(w)
    \/ \E w \in Writers : update_pricing_insert(w)

SpecKeys == Init /\ [][NextKeys]_vars

-----------------------------------------------------------------------------
(* A writer that may stop between the archive write and the insert of the    *)
(* successor: nothing is written after the stop and nothing is rolled back.  *)

\* Mutant of update_pricing_crash: the archive write is rolled back
update_pricing_crash_rolls_back(w) ==
    /\ pc[w] = "insert"
    /\ store' = update_one(store, loc[w].current[1].id, None).store
    /\ pc' = [pc EXCEPT ![w] = "idle"]
    /\ loc' = [loc EXCEPT ![w] = NoLocals]
    /\ pre' = store
    /\ last' = Call("crash", w, loc[w].new_data, KeyOf(loc[w].new_data[1]),
                    "crashed", None)
    /\ UNCHANGED <<now, misused>>

\* update_pricing stops after update_one has returned and before insert_one
update_pricing_crash(w) ==
    /\ pc[w] = "insert"
    /\ pc' = [pc EXCEPT ![w] = "idle"]
    /\ loc' = [loc EXCEPT ![w] = NoLocals]
    /\ pre' = store
    /\ last' = Call("crash", w, loc[w].new_data, KeyOf(loc[w].new_data[1]),
                    "crashed", None)
    /\ UNCHANGED <<store, now, misused>>

\* One writer on its key, its update_pricing calls taken step by step
NextCrash ==
    \/ Tick
    \/ \E m \in Candidates :
          KeyOf(m) = WriterKey["w1"] /\ insert_pricing_by("w1", m)
    \/ \E m \in Candidates :
          KeyOf(m) = WriterKey["w1"] /\ update_pricing_read("w1", m)
    \/ update_pricing_archive("w1")
    \/ update_pricing_insert("w1")
    \/ update_pricing_crash("w1")

SpecCrash == Init /\ [][NextCrash]_vars

-----------------------------------------------------------------------------
(* Facts assembled from pricing cards: the scraper reads the lines of a card, *)
(* assembles the arguments of PricingModel(...), constructs the fact (which  *)
(* validates it) and passes a constructed fact to the ledger.                *)

MaxCardDocs == 2    \* documents the collection may hold in the card runs

\* The period texts extract_subscription_price accepts
Periods == {"per month", "per year"}

\* What was read from a pricing card: the country selected, the plan name
\* (line 0), the currency and amount of the price line (line 1), the period
\* after "plus" (lines 3-4) and the period after "or" (lines 6-7); "none" when
\* the card has no such section.  A second period only follows a first one;
\* the cards in a currency outside the currency-country mapping are free plans.
Cards ==
    { c \in [country : {"Hungary", "Switzerland"},
             pricing_model_name : {"Power"},
             currency : {"€", "CHF", "XYZ"},
             amount : {1},
             first : Periods \cup {"none"},
             second : Periods \cup {"none"}] :
        /\ c.first = "none" => c.second = "none"
        /\ c.second # "none" => c.second # c.first
        /\ c.currency \notin DOMAIN currency_country_map => c.first = "none" }

\* Mutant of subscription_terms: the period after "or" is not read
subscription_terms_first_only(card) ==
    [monthly |-> IF card.first = "per month" THEN card.amount ELSE None,
     yearly |-> IF card.first = "per year" THEN card.amount ELSE None]

\* monthly_terms and yearly_terms after the first and the second period of
\* the card were extracted: the amount of each, None when not set
subscription_terms(card) ==
    [monthly |-> IF "per month" \in {card.first, card.second}
                 THEN card.amount ELSE None,
     yearly |-> IF "per year" \in {card.first, card.second}
                THEN card.amount ELSE None]

\* The arguments of PricingModel(...) the scraper assembles from a card
card_model(card, archive_timestamp) ==
    LET terms == subscription_terms(card) IN
    [country |-> card.country, currency |-> card.currency,
     provider |-> "Ionity", pricing_model_name |-> card.pricing_model_name,
     price_kWh |-> card.amount,
     monthly_subscription_price |-> terms.monthly,
     yearly_subscription_price |-> terms.yearly,
     initial_subscription_price |-> None,
     version |-> 1, id |-> None,
     valid_from |-> archive_timestamp, valid_to |-> None]

\* model = PricingModel(...): the construction succeeds or raises the
\* validation error
construct_model(card) ==
    LET m == card_model(card, FloorToHour(now)) IN
    /\ last' = Call("PricingModel", "w1", <<m, card>>, KeyOf(m),
                    IF Constructible(m) THEN "ok" ELSE "ValidationError", None)
    /\ pre' = store
    /\ UNCHANGED <<store, now, pc, loc, misused>>

\* A fact has just been constructed
Constructed == last.op = "PricingModel" /\ last.outcome = "ok"

NextCards ==
    \/ \E card \in Cards : construct_model(card)
    \/ Constructed /\ insert_pricing(last.cand[1]) /\ Len(store') <= MaxCardDocs
    \/ Constructed /\ update_pricing(last.cand[1]) /\ Len(store') <= MaxCardDocs

SpecCards == Init /\ [][NextCards]_vars

-----------------------------------------------------------------------------
(* Construction of facts from arbitrary arguments: PricingModel(...) either  *)
(* returns the fact or raises the validation error; a caller passes a        *)
(* constructed fact to insert_pricing and drops the arguments otherwise.     *)

MaxArgDocs == 1     \* documents the collection may hold in the argument runs

\* Keyword arguments of PricingModel(...): values inside and outside the
\* bounds of each constrained field
Arguments ==
    [country : {"H", "Hungary"},
     currency : {"", "€", "HUF", "EURO"},
     provider : {"Ionity"},
     pricing_model_name : {"Power"},
     price_kWh : {-2, 0, 1},
     monthly_subscription_price : {None, -2, 0},
     yearly_subscription_price : {None, -2, 1},
     initial_subscription_price : {None, -2},
     version : {0, 1},
     id : {None}, valid_to : {None}, valid_from : {None}]

\* PricingModel(**a): the construction succeeds or raises the validation error
construct(a) ==
    /\ last.op # "PricingModel"
    /\ last' = Call("PricingModel", "w1", <<a>>, KeyOf(a),
                    IF Constructible(a) THEN "ok" ELSE "ValidationError", None)
    /\ pre' = store
    /\ UNCHANGED <<store, now, pc, loc, misused>>

\* The validation error was raised: no fact exists, the caller goes on
construction_failed ==
    /\ last.op = "PricingModel"
    /\ last.outcome = "ValidationError"
    /\ last' = NoCall
    /\ pre' = store
    /\ UNCHANGED <<store, now, pc, loc, misused>>

NextArgs ==
    \/ \E a \in Arguments : construct(a)
    \/ construction_failed
    \/ Constructed /\ insert_pricing(last.cand[1]) /\ Len(store') <= MaxArgDocs

SpecArgs == Init /\ [][NextArgs]_vars

-----------------------------------------------------------------------------
(* Reading a collection that holds documents the ledger did not write:       *)
(* documents of the old schema (subscription_price) and documents that       *)
(* break the data model, inserted directly into db.pricing.                  *)

MaxStoredDocs == 2  \* documents of a collection that is read

\* A document as insert_pricing stored it for key k (before _id is assigned)
StoredObservation(k) == insert_document(Observation(k), 0)

\* The old schema: one subscription_price, no monthly / yearly / initial entry
LegacyDocument ==
    [country |-> "Hungary", currency |-> "€", provider |-> "Ionity",
     pricing_model_name |-> "Power", price_kWh |-> 1, subscription_price |-> 1,
     version |-> 1, valid_from |-> 0, valid_to |-> None]

\* The documents met in the collection
StoredDocuments ==
    LET d == StoredObservation(<<"Hungary", "Ionity", "Power">>) IN
    { d,
      [d EXCEPT !.valid_to = 0],
      StoredObservation(<<"Hungary", "Ionity", "Motion">>),
      LegacyDocument,
      DictMerge(LegacyDocument, [initial_subscription_price |-> 2]),
      DictMerge([d EXCEPT !.yearly_subscription_price = 2], [subscription_price |-> 1]),
      [d EXCEPT !.currency = "CHF"],
      [d EXCEPT !.currency = "CHF", !.valid_to = 0],
      [d EXCEPT !.price_kWh = 0],
      [f \in (DOMAIN d) \ {"price_kWh"} |-> d[f]] }

\* The collections: up to MaxStoredDocs documents, _id assigned in order
StoredCollections ==
    UNION { { [i \in 1..n |-> DictMerge(body[i], "_id" :> i)] :
                body \in [1..n -> StoredDocuments] } : n \in 0..MaxStoredDocs }

InitStored ==
    /\ store \in StoredCollections
    /\ now = 0
    /\ pc = [w \in Writers |-> "idle"]
    /\ loc = [w \in Writers |-> NoLocals]
    /\ last = NoCall
    /\ pre = store
    /\ misused = {}

\* A caller reads the current fact of key k: None, the fact, or the
\* validation error
read_current_pricing(k) ==
    LET raises == get_current_pricing_raises(store, k[1], k[2], k[3])
        result == IF raises THEN <<>> ELSE get_current_pricing(store, k[1], k[2], k[3])
    IN /\ last' = Call("get_current_pricing", "w1", result, k,
                       IF raises THEN "ValidationError"
                       ELSE IF result = <<>> THEN "None" ELSE "ok", None)
       /\ pre' = store
       /\ UNCHANGED <<store, now, pc, loc, misused>>

\* A caller reads the history of key k: the list of facts, or the validation
\* error
read_pricing_history(k) ==
    LET raises == get_pricing_history_raises(store, k[1], k[2], k[3])
        result == IF raises THEN <<>> ELSE get_pricing_history(store, k[1], k[2], k[3])
    IN /\ last' = Call("get_pricing_history", "w1", result, k,
                       IF raises THEN "ValidationError" ELSE "ok", None)
       /\ pre' = store
       /\ UNCHANGED <<store, now, pc, loc, misused>>

NextStored ==
    \/ \E k \in Keys : read_current_pricing(k)
    \/ \E k \in Keys : read_pricing_history(k)

SpecStored == InitStored /\ [][NextStored]_vars

-----------------------------------------------------------------------------
(* A scraper run (get_passport_prices_for_country): for each country the     *)
(* cards of its page are parsed into models, then for each model the ledger  *)
(* is read and insert_pricing or update_pricing is called.  The run is the   *)
(* process "run"; another writer works on the same collection meanwhile.     *)

\* The card of a plan as the page shows it: the fields of Cards, and whether
\* the price line parses (extract_amount_currency returns)
RunCard(country, plan, currency, amount, parsed, first, second) ==
    [country |-> country, pricing_model_name |-> plan, currency |-> currency,
     amount |-> amount, parsed |-> parsed, first |-> first, second |-> second]

\* The pages of a run: the first card of the first country varies (the stored
\* observation, another price, an unparsable price line, an invalid first
\* period, an invalid second period, a currency not allowed for the country)
Runs ==
    LET power(currency, amount, parsed, first, second) ==
            RunCard("Hungary", "Power", currency, amount, parsed, first, second)
        motion == RunCard("Hungary", "Motion", "€", 1, TRUE, "none", "none")
        swiss == RunCard("Switzerland", "Power", "CHF", 1, TRUE, "none", "none")
    IN { << <<first_card, motion>>, <<swiss>> >> :
            first_card \in { power("€", 1, TRUE, "per year", "none"),
                             power("€", 2, TRUE, "per year", "none"),
                             power("€", 1, FALSE, "per year", "none"),
                             power("€", 1, TRUE, "per week", "none"),
                             power("€", 1, TRUE, "per year", "per week"),
                             power("CHF", 1, TRUE, "per year", "none") } }

\* The collections a run starts on: empty, or one current document of the
\* first plan (written by insert_pricing, of the old schema, or invalid), or
\* the first plan and the free second plan as insert_pricing wrote them
RunCollections ==
    LET d == StoredObservation(<<"Hungary", "Ionity", "Power">>)
        free == [StoredObservation(<<"Hungary", "Ionity", "Motion">>)
                    EXCEPT !.yearly_subscription_price = None]
    IN { <<>> } \cup
       { <<DictMerge(body, "_id" :> 1)>> :
           body \in { d, LegacyDocument, [d EXCEPT !.price_kWh = 0] } } \cup
       { <<DictMerge(d, "_id" :> 1), DictMerge(free, "_id" :> 2)>> }

\* The card is turned into a model: the price line parses, the first period
\* (if any) is valid, and PricingModel(...) validates; every failure is
\* caught and the card is skipped (an invalid second period is only logged)
card_gives_model(card, archive_timestamp) ==
    /\ card.parsed
    /\ card.first \in Periods \cup {"none"}
    /\ Constructible(card_model(card, archive_timestamp))

\* models: the models of the cards of one page, in order
RECURSIVE models_of(_, _)
models_of(page, archive_timestamp) ==
    IF page = <<>> THEN <<>>
    ELSE LET rest == models_of(Tail(page), archive_timestamp) IN
         IF card_gives_model(Head(page), archive_timestamp)
         THEN <<card_model(Head(page), archive_timestamp)>> \o rest
         ELSE rest

\* The locals of the run
RunLocals(pages, archive_timestamp) ==
    [input |-> pages, pages |-> pages, models |-> <<>>, model |-> <<>>,
     found |-> <<>>, current |-> <<>>, ts |-> None,
     archive_timestamp |-> archive_timestamp, log |-> <<>>]

InitRun ==
    /\ store \in RunCollections
    /\ now = 0
    /\ pc = [w \in Writers \cup {"run"} |-> IF w = "run" THEN "next" ELSE "idle"]
    /\ \E pages \in Runs :
          loc = [w \in Writers \cup {"run"} |->
                    IF w = "run" THEN RunLocals(pages, FloorToHour(0)) ELSE NoLocals]
    /\ last = NoCall
    /\ pre = store
    /\ misused = {}

\* What the run has done with a model: the result of the read, the ledger
\* call made and how it ended
Logged(m, read, did, outcome) ==
    [model |-> m, found |-> loc["run"].found, read |-> read, did |-> did,
     outcome |-> outcome]

\* The run moves on to the next model with entry e added to its log
RunNext(e) ==
    /\ pc' = [pc EXCEPT !["run"] = "next"]
    /\ loc' = [loc EXCEPT !["run"] =
                  [@ EXCEPT !.model = <<>>, !.found = <<>>, !.current = <<>>,
                            !.ts = None, !.log = Append(@, e)]]

\* for country in country_names: the cards of the next page become models
scrape_country ==
    /\ pc["run"] = "next"
    /\ loc["run"].models = <<>>
    /\ loc["run"].pages # <<>>
    /\ loc' = [loc EXCEPT !["run"] =
                  [@ EXCEPT !.pages = Tail(@),
                            !.models = models_of(Head(loc["run"].pages),
                                                 loc["run"].archive_timestamp)]]
    /\ last' = Call("scrape_country", "run", <<>>, <<>>, "ok", None)
    /\ pre' = store
    /\ UNCHANGED <<store, now, pc, misused>>

\* The last country is done: the run returns
run_returns ==
    /\ pc["run"] = "next"
    /\ loc["run"].models = <<>>
    /\ loc["run"].pages = <<>>
    /\ pc' = [pc EXCEPT !["run"] = "done"]
    /\ last' = Call("run_returns", "run", <<>>, <<>>, "ok", None)
    /\ pre' = store
    /\ UNCHANGED <<store, now, loc, misused>>

\* if stored_pricing: ... if model_data != stored_data: update_pricing
\* ... else: no changes ... else: insert_pricing
run_decision_without_read(m, found) == "insert"

run_decision_compares_all_fields(m, found) ==
    IF found = <<>> THEN "insert"
    ELSE IF m # found[1] THEN "update"
    ELSE "no_changes"

run_decision(m, found) ==
    IF found = <<>> THEN "insert"
    ELSE IF model_dump(m, CompareExclude) # model_dump(found[1], CompareExclude)
    THEN "update"
    ELSE "no_changes"

\* for model in models: stored_pricing = get_current_pricing(...) and the
\* comparison.  The read is in no try block: its validation error leaves
\* the loops and the run.
run_read ==
    LET m == Head(loc["run"].models)
        raises == get_current_pricing_raises(store, m.country, "Ionity",
                                             m.pricing_model_name)
        found == IF raises THEN <<>>
                 ELSE get_current_pricing(store, m.country, "Ionity",
                                          m.pricing_model_name)
        outcome == IF raises THEN "ValidationError" ELSE run_decision(m, found)
    IN /\ pc["run"] = "next"
       /\ loc["run"].models # <<>>
       /\ pc' = [pc EXCEPT !["run"] =
                    CASE outcome = "ValidationError" -> "aborted"
                      [] outcome = "insert" -> "insert"
                      [] outcome = "update" -> "update"
                      [] OTHER -> "next"]
       /\ loc' = [loc EXCEPT !["run"] =
                    [@ EXCEPT !.models = Tail(@),
                              !.model = IF outcome \in {"insert", "update"}
                                        THEN <<m>> ELSE <<>>,
                              !.found = IF outcome \in {"insert", "update"}
                                        THEN found ELSE <<>>,
                              !.log = IF outcome = "ValidationError"
                                      THEN Append(@, [model |-> m, found |-> <<>>,
                                                      read |-> "ValidationError",
                                                      did |-> "none",
                                                      outcome |-> "raised"])
                                      ELSE IF outcome = "no_changes"
                                      THEN Append(@, [model |-> m, found |-> found,
                                                      read |-> "ok", did |-> "none",
                                                      outcome |-> "no_changes"])
                                      ELSE @]]
       /\ last' = Call("run_read", "run", <<m>>, KeyOf(m), outcome, None)
       /\ pre' = store
       /\ UNCHANGED <<store, now, misused>>

\* else: insert_pricing(db, model=model)
run_insert ==
    LET m == loc["run"].model[1] IN
    /\ pc["run"] = "insert"
    /\ store' = insert_one(store, insert_document(m, now))
    /\ misused' = IF find_one(store, m.country, m.provider, m.pricing_model_name) = 0
                  THEN misused
                  ELSE misused \cup {KeyOf(m)}
    /\ RunNext(Logged(m, "None", "insert_pricing", "ok"))
    /\ last' = Call("insert_pricing", "run", <<m>>, KeyOf(m), "ok", None)
    /\ pre' = store
    /\ UNCHANGED now

\* update_pricing(db, new_data=model), lines 202-214: its own read and
\* comparison; a validation error of this read is caught by the run
run_update_read ==
    LET m == loc["run"].model[1]
        raises == get_current_pricing_raises(store, m.country, m.provider,
                                             m.pricing_model_name)
        cur == IF raises THEN <<>>
               ELSE get_current_pricing(store, m.country, m.provider,
                                        m.pricing_model_name)
        outcome == IF raises THEN "error"
                   ELSE IF cur = <<>> THEN "no_active_price"
                   ELSE IF no_changes(cur[1], m) THEN "no_changes"
                   ELSE "changed"
    IN /\ pc["run"] = "update"
       /\ IF outcome = "changed"
          THEN /\ pc' = [pc EXCEPT !["run"] = "archive"]
               /\ loc' = [loc EXCEPT !["run"] = [@ EXCEPT !.current = cur]]
          ELSE RunNext(Logged(m, "ok", "update_pricing", outcome))
       /\ last' = Call("read", "run", <<m>>, KeyOf(m), outcome, None)
       /\ pre' = store
       /\ UNCHANGED <<store, now, misused>>

\* update_pricing, lines 216-225: the archive write; its ValueError is caught
\* by except (PyMongoError, ValueError) of the run, which logs it and goes on
run_update_archive_propagates ==
    LET m == loc["run"].model[1]
        ts == FloorToHour(now)
        arch == update_one(store, loc["run"].current[1].id, ts)
        failed == archive_failed(arch)
    IN /\ pc["run"] = "archive"
       /\ store' = arch.store
       /\ IF failed
          THEN /\ pc' = [pc EXCEPT !["run"] = "aborted"]
               /\ loc' = [loc EXCEPT !["run"] =
                             [@ EXCEPT !.log = Append(@, Logged(m, "ok",
                                                      "update_pricing", "error"))]]
          ELSE /\ pc' = [pc EXCEPT !["run"] = "successor"]
               /\ loc' = [loc EXCEPT !["run"] = [@ EXCEPT !.ts = ts]]
       /\ last' = Call("archive", "run", <<m>>, KeyOf(m),
                       IF failed THEN "error" ELSE "archived", arch.modified_count)
       /\ pre' = store
       /\ UNCHANGED <<now, misused>>

run_update_archive ==
    LET m == loc["run"].model[1]
        ts == FloorToHour(now)
        arch == update_one(store, loc["run"].current[1].id, ts)
        failed == archive_failed(arch)
    IN /\ pc["run"] = "archive"
       /\ store' = arch.store
       /\ IF failed
          THEN RunNext(Logged(m, "ok", "update_pricing", "error"))
          ELSE /\ pc' = [pc EXCEPT !["run"] = "successor"]
               /\ loc' = [loc EXCEPT !["run"] = [@ EXCEPT !.ts = ts]]
       /\ last' = Call("archive", "run", <<m>>, KeyOf(m),
                       IF failed THEN "error" ELSE "archived", arch.modified_count)
       /\ pre' = store
       /\ UNCHANGED <<now, misused>>

\* update_pricing, lines 226-232: the insert of the successor
run_update_insert ==
    LET m == loc["run"].model[1] IN
    /\ pc["run"] = "successor"
    /\ store' = insert_one(store, successor_document(m, loc["run"].current[1],
                                                     loc["run"].ts))
    /\ RunNext(Logged(m, "ok", "update_pricing", "updated"))
    /\ last' = Call("successor", "run", <<m>>, KeyOf(m), "updated", None)
    /\ pre' = store
    /\ UNCHANGED <<now, misused>>

\* What the other writer passes meanwhile: the first plan at its two prices
OtherWriterPasses ==
    LET b == Observation(WriterKey["w1"]) IN { b, [b EXCEPT !.price_kWh = 2] }

NextRun ==
    \/ Tick
    \/ scrape_country
    \/ run_read
    \/ run_insert
    \/ run_update_read
    \/ run_update_archive
    \/ run_update_insert
    \/ run_returns
    \/ \E m \in OtherWriterPasses : update_pricing_read("w2", m)
    \/ update_pricing_archive("w2")
    \/ update_pricing_insert("w2")

SpecRun == InitRun /\ [][NextRun]_vars

-----------------------------------------------------------------------------
(* Scraper runs of one writer: the store starts empty and is written only by *)
(* the runs, one after another.  A second specification adds what can leave  *)
(* a key without a current fact: the process dying between the archive write *)
(* and the insert of update_pricing, and the script cleanup_old_models.py.    *)

MaxScraperDocs == 3

\* The pages of these runs: the two plans of one country, the first plan at
\* another price, the first plan listed twice on one page, two countries
ScraperRuns ==
    LET power(amount) == RunCard("Hungary", "Power", "€", amount, TRUE, "per year", "none")
        motion == RunCard("Hungary", "Motion", "€", 1, TRUE, "none", "none")
        swiss == RunCard("Switzerland", "Power", "CHF", 1, TRUE, "none", "none")
    IN { << <<power(1), motion>> >>,
         << <<power(2), motion>> >>,
         << <<power(1), power(2)>> >>,
         << <<power(2)>>, <<swiss>> >> }

InitScraper ==
    /\ store = <<>>
    /\ now = 0
    /\ pc = [w \in Writers \cup {"run"} |-> IF w = "run" THEN "next" ELSE "idle"]
    /\ \E pages \in ScraperRuns :
          loc = [w \in Writers \cup {"run"} |->
                    IF w = "run" THEN RunLocals(pages, FloorToHour(0)) ELSE NoLocals]
    /\ last = NoCall
    /\ pre = store
    /\ misused = {}

\* main() is started again: a new run, with its own archive_timestamp
run_starts(pages) ==
    /\ pc["run"] \in {"done", "crashed"}
    /\ Len(store) < MaxScraperDocs
    /\ pc' = [pc EXCEPT !["run"] = "next"]
    /\ loc' = [loc EXCEPT !["run"] = RunLocals(pages, FloorToHour(now))]
    /\ last' = Call("run_starts", "run", <<>>, <<>>, "ok", None)
    /\ pre' = store
    /\ UNCHANGED <<store, now, misused>>

NextScraper ==
    \/ Tick
    \/ scrape_country
    \/ run_read
    \/ run_insert
    \/ run_update_read
    \/ run_update_archive
    \/ run_update_insert
    \/ run_returns
    \/ \E pages \in ScraperRuns : run_starts(pages)

SpecScraper == InitScraper /\ [][NextScraper]_vars

\* The process dies inside update_pricing, after update_one and before
\* insert_one: the archive write stays, nothing else is written
run_crash ==
    /\ pc["run"] = "successor"
    /\ pc' = [pc EXCEPT !["run"] = "crashed"]
    /\ last' = Call("crash", "run", loc["run"].model, KeyOf(loc["run"].model[1]),
                    "crashed", None)
    /\ pre' = store
    /\ UNCHANGED <<store, now, loc, misused>>

\* OLD_MODEL_NAMES of cleanup_old_models.py (the plans of the model stand for
\* IONITY PASSPORT POWER and IONITY PASSPORT MOTION)
OLD_MODEL_NAMES == {"Power", "Motion"}

\* update_many({provider, pricing_model_name, valid_to: None},
\*             {"$set": {"valid_to": archive_timestamp}}) for each old name
update_many(s, names, ts) ==
    [i \in 1..Len(s) |->
        IF s[i].provider = "Ionity" /\ s[i].pricing_model_name \in names
           /\ s[i].valid_to = None
        THEN DictMerge(s[i], [valid_to |-> ts])
        ELSE s[i]]

\* cleanup_old_models.py is run between two scraper runs
cleanup_old_models ==
    /\ pc["run"] \in {"done", "crashed"}
    /\ store' = update_many(store, OLD_MODEL_NAMES, now)
    /\ last' = Call("cleanup_old_models", "w1", <<>>, <<>>, "ok", None)
    /\ pre' = store
    /\ UNCHANGED <<now, pc, loc, misused>>

NextScraperCrash ==
    \/ NextScraper
    \/ run_crash
    \/ cleanup_old_models

SpecScraperCrash == InitScraper /\ [][NextScraperCrash]_vars

-----------------------------------------------------------------------------
(* The parsers of ionity_scrape_helpers.py.  A text is the sequence of its   *)
(* characters; a float is the pair <<m, e>> that stands for m / 10^e with no *)
(* trailing zero in its fraction; a regex group that took no part in the     *)
(* match (None) is the empty sequence.                                       *)

Digits == <<"0", "1", "2", "3", "4", "5", "6", "7", "8", "9">>
UpperCase == <<"A", "B", "C", "D", "E", "F", "G", "H", "I", "J", "K", "L", "M",
               "N", "O", "P", "Q", "R", "S", "T", "U", "V", "W", "X", "Y", "Z">>
LowerCase == <<"a", "b", "c", "d", "e", "f", "g", "h", "i", "j", "k", "l", "m",
               "n", "o", "p", "q", "r", "s", "t", "u", "v", "w", "x", "y", "z">>

\* \d, \s and [^\d\s]
IsDigit(c) == \E i \in 1..Len(Digits) : Digits[i] = c
IsSpace(c) == c \in {" ", "\t", "\n", "\r"}
IsSymbol(c) == ~IsDigit(c) /\ ~IsSpace(c)

\* Where the longest run of digits, of spaces, of other characters that
\* starts at p ends (the position after it): a greedy \d+, \s*, [^\d\s]+
DigitsEnd(text, p) ==
    CHOOSE q \in p..(Len(text) + 1) :
        /\ \A i \in p..(q - 1) : IsDigit(text[i])
        /\ q = Len(text) + 1 \/ ~IsDigit(text[q])

SpacesEnd(text, p) ==
    CHOOSE q \in p..(Len(text) + 1) :
        /\ \A i \in p..(q - 1) : IsSpace(text[i])
        /\ q = Len(text) + 1 \/ ~IsSpace(text[q])

SymbolsEnd(text, p) ==
    CHOOSE q \in p..(Len(text) + 1) :
        /\ \A i \in p..(q - 1) : IsSymbol(text[i])
        /\ q = Len(text) + 1 \/ ~IsSymbol(text[q])

\* (\d+\.?\d+) tried at p: the position after the match, 0 if there is none.
\* Digits, a point and digits; or, by backtracking, a run of two or more digits
amount_pattern_one_digit(text, p) ==
    LET d == DigitsEnd(text, p)
        f == DigitsEnd(text, d + 1)
    IN IF d = p THEN 0
       ELSE IF d <= Len(text) /\ text[d] = "." /\ f > d + 1 THEN f
       ELSE d

amount_pattern(text, p) ==
    LET d == DigitsEnd(text, p)
        f == DigitsEnd(text, d + 1)
    IN IF d = p THEN 0
       ELSE IF d <= Len(text) /\ text[d] = "." /\ f > d + 1 THEN f
       ELSE IF d - p >= 2 THEN d
       ELSE 0

\* (\d*,?\d+\.?\d+) tried at p: as above, with one comma inside the digits
\* before the point taken along when two digits, or a digit and a fraction,
\* follow it
subscription_pattern(text, p) ==
    LET d == DigitsEnd(text, p)
        comma == d <= Len(text) /\ text[d] = ","
        d1 == DigitsEnd(text, d + 1)
        f1 == DigitsEnd(text, d1 + 1)
    IN IF comma /\ d1 > d + 1 /\ d1 <= Len(text) /\ text[d1] = "." /\ f1 > d1 + 1
       THEN f1
       ELSE IF comma /\ d1 - (d + 1) >= 2 THEN d1
       ELSE amount_pattern(text, p)

\* The number group of the pattern in use
number_pattern(text, p, pattern) ==
    IF pattern = "amount" THEN amount_pattern(text, p)
    ELSE subscription_pattern(text, p)

\* \s*(number)\s*([^\d\s]{1,3})? after a first group of l characters that
\* began at s: the three groups.  The last group takes what it finds.
groups(text, s, l, pattern) ==
    LET p == SpacesEnd(text, s + l)
        q == number_pattern(text, p, pattern)
        g == SpacesEnd(text, q)
        e == SymbolsEnd(text, g)
    IN [group1 |-> SubSeq(text, s, s + l - 1),
        group2 |-> SubSeq(text, p, q - 1),
        group3 |-> SubSeq(text, g, (IF e - g > 3 THEN g + 3 ELSE e) - 1)]

\* ([^\d\s]{1,3})? tried with l characters, then with fewer, then without:
\* <<groups>> of the first try after which the number matches, <<>> if none
RECURSIVE match_with_group1(_, _, _, _)
match_with_group1(text, s, l, pattern) ==
    IF number_pattern(text, SpacesEnd(text, s + l), pattern) # 0
    THEN <<groups(text, s, l, pattern)>>
    ELSE IF l = 0 THEN <<>>
    ELSE match_with_group1(text, s, l - 1, pattern)

\* ([^\d\s]{1,3})?\s*(number)\s*([^\d\s]{1,3})? matched at s
match_at(text, s, pattern) ==
    match_with_group1(text, s,
                      IF SymbolsEnd(text, s) - s > 3 THEN 3 ELSE SymbolsEnd(text, s) - s,
                      pattern)

\* The match at the leftmost position from s on that has one
RECURSIVE search_from(_, _, _)
search_from(text, s, pattern) ==
    IF s > Len(text) + 1 THEN <<>>
    ELSE IF match_at(text, s, pattern) # <<>> THEN match_at(text, s, pattern)
    ELSE search_from(text, s + 1, pattern)

\* re.search
re_search(text, pattern) == search_from(text, 1, pattern)

\* str.replace(",", "")
replace_comma(s) == SelectSeq(s, LAMBDA c : c # ",")

\* The number the first n digits of ds write
RECURSIVE DigitsValue(_, _)
DigitsValue(ds, n) ==
    IF n = 0 THEN 0
    ELSE 10 * DigitsValue(ds, n - 1)
            + ((CHOOSE i \in 1..Len(Digits) : Digits[i] = ds[n]) - 1)

\* m / 10^e without trailing zeros in the fraction
RECURSIVE Normalized(_, _)
Normalized(m, e) ==
    IF e > 0 /\ m % 10 = 0 THEN Normalized(m \div 10, e - 1) ELSE <<m, e>>

\* float(s) of digits with at most one point
float(s) ==
    LET points == { i \in 1..Len(s) : s[i] = "." }
        point == IF points = {} THEN Len(s) + 1 ELSE CHOOSE i \in points : TRUE
        fraction == SubSeq(s, point + 1, Len(s))
    IN Normalized(DigitsValue(SubSeq(s, 1, point - 1) \o fraction, Len(s) - Cardinality(points)),
                  Len(fraction))

\* What a parser call gives: a Money, or the error it raises
Raised(error) == [outcome |-> error, amount |-> <<0, 0>>, currency |-> <<>>]

\* Money(amount=..., currency=...): currency: str takes no None
Money(amount, currency) ==
    IF currency = <<>> THEN Raised("ValidationError")
    ELSE [outcome |-> "ok", amount |-> amount, currency |-> currency]

\* text.endswith("/kWh")
is_kwh_suffix(text) ==
    Len(text) >= 4 /\ SubSeq(text, Len(text) - 3, Len(text)) = <<"/", "k", "W", "h">>

extract_amount_currency(text) ==
    LET stripped == IF is_kwh_suffix(text) THEN SubSeq(text, 1, Len(text) - 4)
                    ELSE text
        match == re_search(stripped, "amount")
    IN IF match = <<>> THEN Raised("ValueError")
       ELSE LET currency == IF match[1].group1 # <<>> THEN match[1].group1
                            ELSE match[1].group3
            IN Money(float(replace_comma(match[1].group2)), currency)

\* str.lower() and str.strip()
lower(s) ==
    [i \in 1..Len(s) |->
        IF \E k \in 1..Len(UpperCase) : UpperCase[k] = s[i]
        THEN LowerCase[CHOOSE k \in 1..Len(UpperCase) : UpperCase[k] = s[i]]
        ELSE s[i]]

strip(s) ==
    LET kept == { i \in 1..Len(s) : ~IsSpace(s[i]) } IN
    IF kept = {} THEN <<>>
    ELSE SubSeq(s, CHOOSE i \in kept : \A j \in kept : i <= j,
                   CHOOSE i \in kept : \A j \in kept : j <= i)

PerYear == <<"p", "e", "r", " ", "y", "e", "a", "r">>
PerMonth == <<"p", "e", "r", " ", "m", "o", "n", "t", "h">>

\* What extract_subscription_price gives: SubscriptionTerms (a fee is <<>>
\* for None or <<money>>), or the error it raises
SubscriptionTerms(monthly, yearly) ==
    IF \E fee \in {monthly, yearly} : fee.outcome \notin {"ok", "None"}
    THEN [outcome |-> "ValidationError", monthly_additional_price |-> <<>>,
          yearly_additional_price |-> <<>>]
    ELSE [outcome |-> "ok",
          monthly_additional_price |-> IF monthly.outcome = "ok" THEN <<monthly>> ELSE <<>>,
          yearly_additional_price |-> IF yearly.outcome = "ok" THEN <<yearly>> ELSE <<>>]

NoTerms(error) ==
    [outcome |-> error, monthly_additional_price |-> <<>>,
     yearly_additional_price |-> <<>>]

extract_subscription_price_unnormalised(amount_text, period_text) ==
    LET match == re_search(amount_text, "subscription") IN
    IF match = <<>> THEN NoTerms("ValueError")
    ELSE LET currency == IF match[1].group1 # <<>> THEN match[1].group1
                         ELSE match[1].group3
             amount == float(replace_comma(match[1].group2))
         IN IF period_text = PerYear
            THEN SubscriptionTerms(Raised("None"), Money(amount, currency))
            ELSE IF period_text = PerMonth
            THEN SubscriptionTerms(Money(amount, currency), Raised("None"))
            ELSE NoTerms("ValueError")

extract_subscription_price(amount_text, period_text) ==
    LET match == re_search(amount_text, "subscription") IN
    IF match = <<>> THEN NoTerms("ValueError")
    ELSE LET currency == IF match[1].group1 # <<>> THEN match[1].group1
                         ELSE match[1].group3
             amount == float(replace_comma(match[1].group2))
             period_lower == strip(lower(period_text))
         IN IF period_lower = PerYear
            THEN SubscriptionTerms(Raised("None"), Money(amount, currency))
            ELSE IF period_lower = PerMonth
            THEN SubscriptionTerms(Money(amount, currency), Raised("None"))
            ELSE NoTerms("ValueError")

\* The texts passed as price line or fee amount
AmountTexts ==
    { <<"4", "3", "p">>,
      <<"4", "3", "p", "/", "k", "W", "h">>,
      <<"4", "2", ".", "5", "p">>,
      <<"4", "2", ".", "5", "p", "/", "k", "W", "h">>,
      <<"4", "7", ",", "2", "0", "0", " ", "H", "U", "F">>,
      <<"4", "7", ",", "2", "0", "0", " ", "H", "U", "F", "/", "k", "W", "h">>,
      <<"€", "0", ".", "3", "9", "/", "k", "W", "h">>,
      <<"0", ".", "3", "9", " ", "€", "/", "k", "W", "h">>,
      <<"€", "1", "1", ".", "9", "9">>,
      <<"C", "H", "F", " ", "0", ".", "4", "9">>,
      <<"5", " ", "€">>,
      <<"€", "5">>,
      <<"a", "b", "c">>,
      <<>>,
      <<"0", ".", "5">>,
      <<"1", "2">>,
      <<"1", ",", "5", " ", "€">>,
      <<"€", " ", "1", "1", ".", "9", "9">>,
      <<"1", "1", ".", "9", "9", " ", "€">>,
      <<"£", "0", ".", "4", "3">>,
      <<"0", ".", "4", "3", " ", "£">>,
      <<"£", "0", ".", "4", "3", "/", "k", "W", "h">>,
      <<"1", ",", "2", "9", "9", ".", "5", "0", " ", "H", "U", "F">>,
      <<"a", "1", "b", "2", "2", "c">>,
      <<"€", "1", ".", "5", ".", "2">>,
      <<"a", "b", "c", "d", "1", "2">>,
      <<"1", "2", " ", "H", "U", "F", "X">>,
      <<",", "2", "0", "0">>,
      <<"a", "b", ",", "2", "0", "0">>,
      <<"a", "b", "c", ",", "2", "0", "0">>,
      <<"1", "2", ".", "€">>,
      <<"0", ".", "7", "0", " ", "p">>,
      <<"7", "p">>,
      <<"/", "k", "W", "h">> }

\* The texts passed as period
PeriodTexts ==
    { <<"p", "e", "r", " ", "y", "e", "a", "r">>,
      <<"p", "e", "r", " ", "m", "o", "n", "t", "h">>,
      <<"P", "e", "r", " ", "Y", "e", "a", "r">>,
      <<"P", "E", "R", " ", "M", "O", "N", "T", "H">>,
      <<" ", "p", "e", "r", " ", "y", "e", "a", "r", " ">>,
      <<"p", "e", "r", " ", "m", "o", "n", "t", "h", " ">>,
      <<"p", "e", "r", " ", "w", "e", "e", "k">>,
      <<>>,
      <<"p", "e", "r", "y", "e", "a", "r">>,
      <<"p", "e", "r", " ", " ", "y", "e", "a", "r">>,
      <<"y", "e", "a", "r", "l", "y">> }


\* A call of extract_amount_currency
parse_amount(text) ==
    /\ last = NoCall
    /\ \E money \in {extract_amount_currency(text)} :
          last' = Call("extract_amount_currency", "w1", <<money>>, <<text>>,
                       money.outcome, None)
    /\ UNCHANGED <<store, now, pc, loc, pre, misused>>

\* A call of extract_subscription_price
parse_subscription(amount_text, period_text) ==
    /\ last = NoCall
    /\ \E terms \in {extract_subscription_price(amount_text, period_text)} :
          last' = Call("extract_subscription_price", "w1", <<terms>>,
                       <<amount_text, period_text>>, terms.outcome, None)
    /\ UNCHANGED <<store, now, pc, loc, pre, misused>>

\* The caller has the result (or has caught the error) and calls again
parse_returns ==
    /\ last # NoCall
    /\ last' = NoCall
    /\ UNCHANGED <<store, now, pc, loc, pre, misused>>

NextParse ==
    \/ parse_returns
    \/ \E text \in AmountTexts : parse_amount(text)
    \/ \E amount_text \in AmountTexts, period_text \in PeriodTexts :
          parse_subscription(amount_text, period_text)

SpecParse == Init /\ [][NextParse]_vars

-----------------------------------------------------------------------------
(* Vocabulary of the properties *)

\* Positions of the current facts (valid_to = null) of key k in store s
CurrentsOf(s, k) == { i \in 1..Len(s) : CurrentFilter(s[i], k[1], k[2], k[3]) }

\* Positions of all stored facts of key k in store s
FactsOf(s, k) == { i \in 1..Len(s) : HistoryFilter(s[i], k[1], k[2], k[3]) }

\* The fields the specification calls economically meaningful
EconomicFields ==
    {"country", "currency", "provider", "pricing_model_name", "price_kWh",
     "monthly_subscription_price", "yearly_subscription_price"}

EconomicallyIdentical(a, b) == \A f \in EconomicFields : a[f] = b[f]

\* The fields of a stored document
DocumentFields == Fields \cup {"_id"}

\* The call that has just returned
JustCalled(op) == last.op = op
Candidate == last.cand[1]

\* The fact get_current_pricing returned for the candidate's key before the call
CurrentBefore == get_current_pricing(pre, last.key[1], last.key[2], last.key[3])

-----------------------------------------------------------------------------
(* C1 *)

\* C1 (as stated): after any sequence of insert_pricing and update_pricing
\* calls, every natural key has at most one stored fact with valid_to = null.
C1_SingleCurrentAnySequence ==
    \A k \in Keys : Cardinality(CurrentsOf(store, k)) <= 1

\* C1 (amended): a key for which insert_pricing was never called while it had
\* a current fact has at most one stored fact with valid_to = null, after any
\* sequence of insert_pricing and update_pricing calls.
C1_SingleCurrent ==
    \A k \in Keys \ misused : Cardinality(CurrentsOf(store, k)) <= 1

\* A key that went through an archive-and-append keeps one current fact
C1_Witness ==
    /\ JustCalled("update_pricing")
    /\ last.outcome = "updated"
    /\ last.key \notin misused
    /\ Cardinality(FactsOf(store, last.key)) = 3
    /\ Cardinality(CurrentsOf(store, last.key)) = 1

-----------------------------------------------------------------------------
(* C2 *)

\* C2: calling update_pricing with a fact economically identical to the
\* current one never changes the current version and never adds a history
\* entry: the store is unchanged.
C2_Idempotence ==
    ( /\ JustCalled("update_pricing")
      /\ CurrentBefore # <<>>
      /\ EconomicallyIdentical(CurrentBefore[1], Candidate) )
    => /\ store = pre
       /\ get_current_pricing(store, last.key[1], last.key[2], last.key[3]) = CurrentBefore
       /\ Len(get_pricing_history(store, last.key[1], last.key[2], last.key[3]))
            = Len(get_pricing_history(pre, last.key[1], last.key[2], last.key[3]))

-----------------------------------------------------------------------------
(* C3 *)

\* The versions of the facts of key k are exactly 1..n, each once
GapFreeVersions(s, k) ==
    LET F == FactsOf(s, k) IN
    /\ \A i \in F : s[i].version \in 1..Cardinality(F)
    /\ \A i, j \in F : i # j => s[i].version # s[j].version

\* C3 (as stated): for any key, after any sequence of ledger operations, the
\* versions of its stored facts sorted ascending are exactly 1, 2, ..., n.
C3_GapFreeAnySequence == \A k \in Keys : GapFreeVersions(store, k)

\* C3 (amended): for a key for which insert_pricing was never called while it
\* had a current fact, the versions of its stored facts sorted ascending are
\* exactly 1, 2, ..., n with no gap and no repeat.
C3_GapFree == \A k \in Keys \ misused : GapFreeVersions(store, k)

\* A key with three versions
C3_Witness ==
    \E k \in Keys \ misused :
        { store[i].version : i \in FactsOf(store, k) } = {1, 2, 3}

-----------------------------------------------------------------------------
(* C4 *)

\* Each version of key k is held by one fact
VersionsIdentifyFacts(s, k) ==
    \A i, j \in FactsOf(s, k) : i # j => s[i].version # s[j].version

\* C4: for a key with more than one stored fact (each version held by one
\* fact), for each pair of consecutive versions n and n+1 the valid_to of
\* version n equals the valid_from of version n+1.
C4_IntervalContiguity ==
    \A k \in Keys :
        VersionsIdentifyFacts(store, k) =>
            \A i, j \in FactsOf(store, k) :
                store[j].version = store[i].version + 1
                    => store[i].valid_to = store[j].valid_from

\* A key with versions 1, 2, 3 whose first fact was inserted inside an hour
C4_Witness ==
    \E k \in Keys :
        /\ VersionsIdentifyFacts(store, k)
        /\ Cardinality(FactsOf(store, k)) = 3
        /\ \E i \in FactsOf(store, k) :
              store[i].version = 1 /\ store[i].valid_from # FloorToHour(store[i].valid_from)

-----------------------------------------------------------------------------
(* C5 *)

ComparedFields ==
    {"price_kWh", "monthly_subscription_price", "yearly_subscription_price",
     "currency"}

\* C5: when the key has its current fact and the candidate differs from it in
\* a compared field (price_kWh, monthly fee, yearly fee, currency),
\* update_pricing archives the current fact (valid_to non-null, every other
\* field kept) and appends a successor with version = current.version + 1,
\* valid_to = null and the candidate's values; get_current_pricing then
\* returns the successor.
C5_ArchiveAndAppend ==
    ( /\ JustCalled("update_pricing")
      /\ Cardinality(CurrentsOf(pre, last.key)) = 1
      /\ \E f \in ComparedFields : CurrentBefore[1][f] # Candidate[f] )
    => LET i == CHOOSE i \in CurrentsOf(pre, last.key) : TRUE
           n == Len(pre)
       IN /\ Len(store) = n + 1
          /\ store[i].valid_to # None
          /\ \A f \in DocumentFields \ {"valid_to"} : store[i][f] = pre[i][f]
          /\ \A j \in 1..n : j # i => store[j] = pre[j]
          /\ store[n + 1].version = pre[i].version + 1
          /\ store[n + 1].valid_to = None
          /\ EconomicallyIdentical(store[n + 1], Candidate)
          /\ get_current_pricing(store, last.key[1], last.key[2], last.key[3])
                = <<PricingModel(store[n + 1])>>

\* update_pricing has met a current fact that differs in one compared field only
C5_Witness ==
    /\ JustCalled("update_pricing")
    /\ Cardinality(CurrentsOf(pre, last.key)) = 1
    /\ Cardinality({ f \in ComparedFields : CurrentBefore[1][f] # Candidate[f] }) = 1
    /\ CurrentBefore[1].monthly_subscription_price # Candidate.monthly_subscription_price
    /\ Len(store) = Len(pre) + 1

-----------------------------------------------------------------------------
(* C6 *)

\* C6: insert_pricing appends exactly one new document with version = 1 and
\* valid_to = null, whatever version, valid_from and valid_to the candidate
\* carries, and changes no existing document.
C6_InsertAppendsVersionOne ==
    JustCalled("insert_pricing")
    => /\ Len(store) = Len(pre) + 1
       /\ SubSeq(store, 1, Len(pre)) = pre
       /\ store[Len(store)].version = 1
       /\ store[Len(store)].valid_to = None

\* A candidate carrying version 2, a valid_from and a valid_to was inserted
\* into a store that already held documents
C6_Witness ==
    /\ JustCalled("insert_pricing")
    /\ Candidate.version = 2
    /\ Candidate.valid_to # None
    /\ Candidate.valid_from # None
    /\ Len(pre) > 0

-----------------------------------------------------------------------------
(* C7 *)

\* C7: insert_pricing stores valid_from equal to the current UTC time floored
\* to the hour.
C7_InsertFloorsValidFrom ==
    JustCalled("insert_pricing")
    => store[Len(store)].valid_from = FloorToHour(now)

-----------------------------------------------------------------------------
(* C8 *)

\* C8: after insert_pricing(f) on a key with no current fact,
\* get_current_pricing for f's key returns a fact with f's country, currency,
\* provider, plan name, price_kWh, monthly fee and yearly fee (an absent fee
\* stays absent).
C8_InsertRoundTrip ==
    ( JustCalled("insert_pricing") /\ CurrentBefore = <<>> )
    => LET got == get_current_pricing(store, Candidate.country, Candidate.provider,
                                  Candidate.pricing_model_name)
       IN /\ got # <<>>
          /\ EconomicallyIdentical(got[1], Candidate)

\* A plan without fees was inserted while the other key had a current fact
C8_Witness ==
    /\ JustCalled("insert_pricing")
    /\ CurrentBefore = <<>>
    /\ Candidate.yearly_subscription_price = None
    /\ Candidate.monthly_subscription_price = None
    /\ \E k \in Keys : k # last.key /\ CurrentsOf(pre, k) # {}

-----------------------------------------------------------------------------
(* C9 *)

\* C9: update_pricing called for a key that has no current fact is a no-op:
\* it raises no error and leaves every stored document unchanged.
C9_UpdateWithoutCurrentIsNoop ==
    ( JustCalled("update_pricing") /\ CurrentsOf(pre, last.key) = {} )
    => /\ last.outcome = "no_active_price"
       /\ store = pre

\* update_pricing was called for a key without a current fact on a store that
\* holds documents of another key
C9_Witness ==
    /\ JustCalled("update_pricing")
    /\ CurrentsOf(pre, last.key) = {}
    /\ Len(pre) > 0

-----------------------------------------------------------------------------
(* C10 *)

\* C10: if the archive write of update_pricing modifies zero documents,
\* update_pricing fails with an error and inserts no successor (the call has
\* ended), and the store is unchanged by it.
C10_ArchiveOfNothingFails ==
    ( JustCalled("archive") /\ last.modified_count = 0 )
    => /\ last.outcome = "error"
       /\ pc[last.w] = "idle"
       /\ store = pre

\* The archive write of a writer met a fact that the other writer had
\* archived in the same hour
C10_Witness ==
    /\ JustCalled("archive")
    /\ last.modified_count = 0
    /\ \E i \in 1..Len(pre) : pre[i].valid_to # None

-----------------------------------------------------------------------------
(* C11 *)

\* The stored document that the writer of the last step had read as current
ReadFactIn(s, w) ==
    { i \in 1..Len(s) : s[i]["_id"] = loc[w].current[1].id }

\* C11: when two writers run update_pricing concurrently for one key and both
\* have read the same current fact, the writer whose archive write comes
\* second gets the archive-failure error: an archive write that goes through
\* has archived a fact that was still current, so no second successor follows.
C11_LostUpdateDetected ==
    ( JustCalled("archive") /\ last.outcome = "archived" )
    => \A i \in ReadFactIn(pre, last.w) : pre[i].valid_to = None

-----------------------------------------------------------------------------
(* C12 *)

\* C12: without per-key mutual exclusion the ledger is unsafe on one key.  The
\* insert of a successor and insert_pricing append a current fact without
\* looking at the store, so every fact of the key that was current before the
\* step stays current; an interleaving of two update_pricing executions (or
\* two insert_pricing calls) thereby reaches two facts with valid_to = null.
C12_WritesKeepOtherCurrents ==
    ( JustCalled("successor") \/ JustCalled("insert_pricing") )
    => /\ CurrentsOf(store, last.key) = CurrentsOf(pre, last.key) \cup {Len(store)}
       /\ Len(store) = Len(pre) + 1

\* Two update_pricing executions on a key that insert_pricing was called for
\* once have interleaved and left two current successors of the same fact
C12_Witness ==
    /\ JustCalled("successor")
    /\ last.key \notin misused
    /\ Cardinality(CurrentsOf(store, last.key)) = 2
    /\ \A i \in CurrentsOf(store, last.key) : store[i].version = 2

-----------------------------------------------------------------------------
(* C13 *)

\* C13: ARCHIVED is terminal: once a stored fact's valid_to is non-null, no
\* later insert_pricing or update_pricing step of any writer changes its
\* valid_to or any other field of it.
C13_ArchivedIsTerminal ==
    \A i \in 1..Len(pre) :
        pre[i].valid_to # None => ( i <= Len(store) /\ store[i] = pre[i] )

-----------------------------------------------------------------------------
(* C14 *)

BothFeesSet(m) ==
    m.monthly_subscription_price # None /\ m.yearly_subscription_price # None

-----------------------------------------------------------------------------
(* C15 *)

\* C15: the equality check of update_pricing depends only on the economically
\* meaningful fields: two candidates that agree on currency, price, both fees,
\* country, provider and plan name lead to the same decision (no-op or new
\* version) against the same current fact, whatever their id, valid_from,
\* valid_to, version or initial_subscription_price.
C15_DecisionByEconomicFields ==
    \A a, b \in FieldCandidates \cup Candidates :
        ( /\ EconomicallyIdentical(a, b)
          /\ CurrentsOf(store, KeyOf(a)) # {} )
        => update_result(store, a, now).outcome = update_result(store, b, now).outcome

-----------------------------------------------------------------------------
(* C16 *)

\* C16: for each key (whose versions each name one fact), ordering the stored
\* facts by version gives validity intervals [valid_from, valid_to) that do
\* not overlap and whose valid_from values do not decrease as the version
\* increases, for any times of the insert and update calls.
C16_IntervalsOrdered ==
    \A k \in Keys \ misused :
        VersionsIdentifyFacts(store, k) =>
            \A i, j \in FactsOf(store, k) :
                store[i].version < store[j].version
                    => /\ store[i].valid_from <= store[j].valid_from
                       /\ store[i].valid_to # None
                       /\ store[i].valid_to <= store[j].valid_from

-----------------------------------------------------------------------------
(* C17 *)

\* C17: append-only history: no ledger operation removes a stored fact; the
\* stored facts only grow, and an existing fact changes only by having its
\* valid_to set.  (get_current_pricing and get_pricing_history write nothing:
\* the read step of update_pricing leaves the store as it was.)
C17_AppendOnly ==
    /\ Len(store) >= Len(pre)
    /\ \A i \in 1..Len(pre) :
          /\ \A f \in DocumentFields \ {"valid_to"} : store[i][f] = pre[i][f]
          /\ store[i].valid_to # pre[i].valid_to => store[i].valid_to # None
    /\ \A k \in Keys : FactsOf(pre, k) \subseteq FactsOf(store, k)
    /\ JustCalled("read") => store = pre

\* An archive write has changed a stored fact of a collection of two facts,
\* after which a successor was appended
C17_Witness ==
    /\ JustCalled("successor")
    /\ Len(store) = 3
    /\ \E i \in 1..Len(store) : store[i].valid_to # None

-----------------------------------------------------------------------------
(* C18 *)

\* C18: keys are independent: a step of insert_pricing or update_pricing for
\* key K never creates, modifies or archives a fact of a different key, so
\* any interleaving of writers working on different keys preserves, for each
\* key (insert_pricing called for it only while it had no current fact), the
\* single-current and the gap-free-version invariant.
C18_KeysIndependent ==
    /\ last.op # "none" =>
          \A k \in Keys \ {last.key} :
              /\ FactsOf(store, k) = FactsOf(pre, k)
              /\ \A i \in FactsOf(pre, k) : store[i] = pre[i]
    /\ \A k \in Keys \ misused :
          /\ Cardinality(CurrentsOf(store, k)) <= 1
          /\ GapFreeVersions(store, k)

\* A writer has inserted the first fact of its key while the writer of the
\* other key stood between its archive write and the insert of its successor
C18_Witness ==
    /\ JustCalled("insert_pricing")
    /\ \E w \in Writers : w # last.w /\ pc[w] = "insert"
    /\ misused = {}
    /\ \A k \in Keys : FactsOf(store, k) # {}

-----------------------------------------------------------------------------
(* C19 *)

\* C19: if update_pricing stops after its archive write and before the insert
\* of the successor, the key (which had its one current fact) is left with
\* no current fact: every stored fact of the key has a non-null valid_to.
C19_CrashLeavesNoCurrent ==
    ( JustCalled("crash") /\ last.key \notin misused )
    => /\ CurrentsOf(store, last.key) = {}
       /\ FactsOf(store, last.key) # {}
       /\ \A i \in FactsOf(store, last.key) : store[i].valid_to # None
       /\ get_current_pricing(store, last.key[1], last.key[2], last.key[3]) = <<>>

\* update_pricing stopped while superseding version 2 of a key
C19_Witness ==
    /\ JustCalled("crash")
    /\ last.key \notin misused
    /\ { store[i].version : i \in FactsOf(store, last.key) } = {1, 2}

-----------------------------------------------------------------------------
(* C20 *)

\* The currency is a key of the mapping and the country is not in its set
CurrencyCountryMismatch(m) ==
    /\ m.currency \in DOMAIN currency_country_map
    /\ m.country \notin currency_country_map[m.currency]

\* C20: constructing a PricingFact whose currency is a key of the
\* currency-country mapping and whose country is not in that currency's
\* allowed set fails with a validation error (for example Switzerland with
\* €), so such a fact is never passed to insert_pricing or update_pricing
\* and never stored.
C20_MismatchRejected ==
    /\ ( JustCalled("PricingModel") /\ CurrencyCountryMismatch(Candidate) )
          => last.outcome = "ValidationError"
    /\ ( JustCalled("insert_pricing") \/ JustCalled("update_pricing") )
          => ~CurrencyCountryMismatch(Candidate)
    /\ \A i \in 1..Len(store) : ~CurrencyCountryMismatch(store[i])

\* The construction of a fact for Switzerland in € was attempted while the
\* collection held facts
C20_Witness ==
    /\ JustCalled("PricingModel")
    /\ Candidate.country = "Switzerland"
    /\ Candidate.currency = "€"
    /\ last.outcome = "ValidationError"
    /\ Len(store) > 0

-----------------------------------------------------------------------------
(* C21 *)

\* C21: a PricingFact whose currency is not a key of the currency-country
\* mapping passes the currency-country rule for every country: the rule
\* never rejects it, and the fact is constructed.
C21_UnmappedCurrencyPasses ==
    ( JustCalled("PricingModel")
      /\ Candidate.currency \notin DOMAIN currency_country_map )
    => /\ check_currency_country_relationship(Candidate)
       /\ field_constraints(Candidate) => last.outcome = "ok"

\* Facts in a currency outside the mapping were constructed for both
\* countries, and the first of them was stored
C21_Witness ==
    /\ JustCalled("PricingModel")
    /\ last.outcome = "ok"
    /\ Candidate.currency \notin DOMAIN currency_country_map
    /\ \E i \in 1..Len(store) :
          /\ store[i].currency = Candidate.currency
          /\ store[i].country # Candidate.country

-----------------------------------------------------------------------------
(* C22 *)

-----------------------------------------------------------------------------
(* C23 *)

\* The stored document breaks the data model: a required field is missing,
\* the price is not positive, or the country is not allowed for the currency
ViolatesDataModel(d) ==
    \/ \E f \in RequiredFields : f \notin DOMAIN d
    \/ d.price_kWh <= 0
    \/ CurrencyCountryMismatch(d)

\* C23: get_current_pricing fails with a validation error, instead of
\* returning a fact, when the stored current document of the key violates a
\* data-model invariant (currency/country mismatch, price <= 0, missing
\* required field), and returns otherwise; get_pricing_history fails the
\* same way when any stored document of the key does.
C23_InvalidDocumentRaises ==
    /\ JustCalled("get_current_pricing") =>
          LET i == find_one(store, last.key[1], last.key[2], last.key[3]) IN
          /\ ( i # 0 /\ ViolatesDataModel(store[i]) )
                => ( last.outcome = "ValidationError" /\ last.cand = <<>> )
          /\ ( i # 0 /\ ~ViolatesDataModel(store[i]) )
                => ( last.outcome = "ok" /\ Len(last.cand) = 1 )
          /\ i = 0 => last.outcome = "None"
    /\ JustCalled("get_pricing_history") =>
          ( ( \E i \in FactsOf(store, last.key) : ViolatesDataModel(store[i]) )
            <=> last.outcome = "ValidationError" )

\* The history of a key was read whose current document is valid and whose
\* archived document has a currency not allowed for its country
C23_Witness ==
    /\ JustCalled("get_pricing_history")
    /\ last.outcome = "ValidationError"
    /\ ~get_current_pricing_raises(store, last.key[1], last.key[2], last.key[3])
    /\ CurrentsOf(store, last.key) # {}
    /\ \E i \in FactsOf(store, last.key) : CurrencyCountryMismatch(store[i])

-----------------------------------------------------------------------------
(* C27 *)

\* C27: schema migration on read: a stored document that carries the legacy
\* field subscription_price = s and no yearly_subscription_price is loaded as
\* a fact with yearly_subscription_price = s, monthly_subscription_price
\* absent and, when it had no initial_subscription_price,
\* initial_subscription_price = s; a document that already has
\* yearly_subscription_price is not altered by the legacy field.
C27_MigrationOnRead ==
    ( JustCalled("get_current_pricing") /\ last.outcome = "ok" ) =>
        LET d == store[find_one(store, last.key[1], last.key[2], last.key[3])]
            fact == last.cand[1]
        IN /\ ( /\ "subscription_price" \in DOMAIN d
                /\ "yearly_subscription_price" \notin DOMAIN d )
              => /\ fact.yearly_subscription_price = d.subscription_price
                 /\ fact.monthly_subscription_price = None
                 /\ "initial_subscription_price" \notin DOMAIN d
                       => fact.initial_subscription_price = d.subscription_price
                 /\ "initial_subscription_price" \in DOMAIN d
                       => fact.initial_subscription_price = d.initial_subscription_price
           /\ "yearly_subscription_price" \in DOMAIN d
              => /\ fact.yearly_subscription_price = d.yearly_subscription_price
                 /\ fact.monthly_subscription_price = d.monthly_subscription_price
                 /\ fact.initial_subscription_price = d.initial_subscription_price

\* A document of the old schema without initial_subscription_price was
\* loaded as the current fact of its key, behind a document of another key
C27_Witness ==
    /\ JustCalled("get_current_pricing")
    /\ last.outcome = "ok"
    /\ Len(store) = 2
    /\ "yearly_subscription_price" \notin DOMAIN store[2]
    /\ "initial_subscription_price" \notin DOMAIN store[2]
    /\ last.cand[1].id = 2
    /\ last.cand[1].yearly_subscription_price = 1
    /\ last.cand[1].initial_subscription_price = 1

-----------------------------------------------------------------------------
(* The scraper run: what it has handled and what is left *)

RECURSIVE PagesModels(_, _)
\* The models of all cards of the pages, in page order
PagesModels(pages, archive_timestamp) ==
    IF pages = <<>> THEN <<>>
    ELSE models_of(Head(pages), archive_timestamp)
            \o PagesModels(Tail(pages), archive_timestamp)

\* The models the run has finished with (or has failed on), in order
LogModels == [i \in 1..Len(loc["run"].log) |-> loc["run"].log[i].model]

\* The models the run has yet to read
RemainingModels ==
    loc["run"].models \o PagesModels(loc["run"].pages, loc["run"].archive_timestamp)

\* Every model of the run's cards is finished, in work or yet to come, once
RunProgress ==
    LogModels \o loc["run"].model \o RemainingModels
        = PagesModels(loc["run"].input, loc["run"].archive_timestamp)

\* The entry the run has logged last
LastLogged == loc["run"].log[Len(loc["run"].log)]

-----------------------------------------------------------------------------
(* C24: in a scraper run a parse or validation failure that concerns one     *)
(* plan (unparsable price text, invalid period text, invalid currency and    *)
(* country pair of the candidate, invalid stored document met by the read of *)
(* that plan's current fact) does not abort the run: the run is never        *)
(* abandoned, no plan is dropped but the failing one, and a run that has     *)
(* returned has handled every other plan of every country.                   *)
C24_FailureSkipsOnlyItsPlan ==
    /\ pc["run"] # "aborted"
    /\ RunProgress
    /\ pc["run"] = "done" =>
          LogModels = PagesModels(loc["run"].input, loc["run"].archive_timestamp)

\* The failures of the cards alone (price text, period text, currency and
\* country pair) are isolated: a run that is not abandoned drops no model
C24_CardFailuresIsolated ==
    /\ RunProgress
    /\ pc["run"] = "done" =>
          LogModels = PagesModels(loc["run"].input, loc["run"].archive_timestamp)

\* The run is abandoned with plans and countries left unread
C24_RunAbandoned ==
    /\ pc["run"] = "aborted"
    /\ LastLogged.read = "ValidationError"
    /\ RemainingModels # <<>>
    /\ loc["run"].pages # <<>>

-----------------------------------------------------------------------------
(* C25: when update_pricing raises the archive-failure error for one key in  *)
(* a scraper run, the run is not abandoned: nothing more is written for that *)
(* key, the failure is logged for it, and the run stands before its next     *)
(* model with every remaining plan and country still to be read.             *)
C25_ArchiveFailureSkipsOnlyKey ==
    (JustCalled("archive") /\ last.w = "run" /\ last.outcome = "error") =>
        /\ pc["run"] = "next"
        /\ store = pre
        /\ LastLogged.model = Candidate
        /\ LastLogged.did = "update_pricing"
        /\ LastLogged.outcome = "error"
        /\ loc["run"].model = <<>>
        /\ RunProgress

\* The run's update of the first plan has failed on the archive write, the
\* second plan and the second country are still to come
C25_Witness ==
    /\ JustCalled("archive") /\ last.w = "run" /\ last.outcome = "error"
    /\ last.modified_count = 0
    /\ RemainingModels # <<>>
    /\ loc["run"].pages # <<>>

\* After such a failure the run has gone on and returned with the other
\* plans handled
C25_RunWentOn ==
    /\ pc["run"] = "done"
    /\ \E i \in 1..Len(loc["run"].log) :
          /\ loc["run"].log[i].outcome = "error"
          /\ i < Len(loc["run"].log)

-----------------------------------------------------------------------------
(* C26: for each candidate of a scraper run whose read of the ledger has     *)
(* returned, the run does exactly one of three things, once: it calls        *)
(* insert_pricing if and only if the read found no current fact, it calls    *)
(* update_pricing if and only if the read found one and the compared fields  *)
(* differ, and it writes nothing if and only if the read found one and the   *)
(* compared fields are equal; the run writes only after that read.           *)
ComparedFieldsDiffer(e) ==
    model_dump(e.model, CompareExclude) # model_dump(e.found[1], CompareExclude)

C26_ReadThenOneOfThree ==
    /\ \A i \in 1..Len(loc["run"].log) :
          LET e == loc["run"].log[i] IN
          e.read # "ValidationError" =>
             /\ e.did \in {"insert_pricing", "update_pricing", "none"}
             /\ e.did = "insert_pricing" <=> e.found = <<>>
             /\ e.did = "update_pricing" <=> (e.found # <<>> /\ ComparedFieldsDiffer(e))
             /\ e.did = "none" <=> (e.found # <<>> /\ ~ComparedFieldsDiffer(e))
    /\ RunProgress
    /\ JustCalled("run_read") =>
          /\ store = pre
          /\ last.outcome = "insert" <=> CurrentBefore = <<>>
          /\ pc["run"] = "insert" <=> last.outcome = "insert"
          /\ pc["run"] = "update" <=> last.outcome = "update"
          /\ last.outcome = "no_changes" =>
                (pc["run"] = "next" /\ LastLogged.did = "none")
    /\ (last.w = "run" /\ store # pre) =>
          /\ last.op \in {"insert_pricing", "archive", "successor"}
          /\ JustCalled("insert_pricing") =>
                (LastLogged.model = Candidate /\ LastLogged.found = <<>>)
          /\ JustCalled("archive") => loc["run"].found # <<>>
          /\ JustCalled("successor") =>
                (LastLogged.model = Candidate /\ LastLogged.found # <<>>)

\* A run has done all three: inserted one plan, updated one, left one alone
C26_Witness ==
    /\ pc["run"] = "done"
    /\ \E i, j, k \in 1..Len(loc["run"].log) :
          /\ loc["run"].log[i].did = "insert_pricing"
          /\ loc["run"].log[j].did = "update_pricing"
          /\ loc["run"].log[j].outcome = "updated"
          /\ loc["run"].log[k].did = "none"
          /\ loc["run"].log[k].read = "ok"

-----------------------------------------------------------------------------
(* The parsers: the shapes of the texts *)

\* s is a number as the price texts write it: digits, or digits, a point and
\* digits
IsNumber(s) ==
    /\ s # <<>>
    /\ IsDigit(s[1]) /\ IsDigit(s[Len(s)])
    /\ \A i \in 1..Len(s) : IsDigit(s[i]) \/ s[i] = "."
    /\ Cardinality({ i \in 1..Len(s) : s[i] = "." }) <= 1

\* The text without its /kWh suffix, if it has one
WithoutKwh(text) ==
    IF is_kwh_suffix(text) THEN SubSeq(text, 1, Len(text) - 4) ELSE text

\* A number followed by a bare p, with or without the /kWh suffix
IsPenceText(text) ==
    LET t == WithoutKwh(text) IN
    /\ Len(t) >= 2
    /\ t[Len(t)] = "p"
    /\ IsNumber(SubSeq(t, 1, Len(t) - 1))

\* digits,digits followed by a currency code of one to three characters
IsThousandsText(text) ==
    \E c \in 2..Len(text) :
        LET e == DigitsEnd(text, c + 1)
            g == SpacesEnd(text, e)
        IN /\ text[c] = ","
           /\ \A i \in 1..(c - 1) : IsDigit(text[i])
           /\ e > c + 1
           /\ g <= Len(text) /\ Len(text) - g < 3
           /\ \A i \in g..Len(text) : IsSymbol(text[i]) /\ text[i] \notin {",", "."}

\* The two characters are the same letter in either case
SameLetter(c, d) ==
    \/ c = d
    \/ \E k \in 1..Len(UpperCase) : {c, d} = {UpperCase[k], LowerCase[k]}

\* The period text is q but for case and surrounding spaces
IsPeriod(period_text, q) ==
    \E i \in 1..(Len(period_text) + 1) :
        /\ i + Len(q) - 1 <= Len(period_text)
        /\ \A k \in 1..Len(q) : SameLetter(period_text[i + k - 1], q[k])
        /\ \A j \in 1..Len(period_text) :
              (j < i \/ j > i + Len(q) - 1) => IsSpace(period_text[j])

-----------------------------------------------------------------------------
(* C28: extract_amount_currency converts pence to pounds: for a text whose   *)
(* currency token is a bare trailing p, with or without the /kWh suffix and  *)
(* with an integer or a decimal number, it returns the number divided by 100 *)
(* with currency £.                                                          *)
C28_PenceToPounds ==
    (JustCalled("extract_amount_currency") /\ IsPenceText(last.key[1])) =>
        LET t == WithoutKwh(last.key[1])
            number == float(SubSeq(t, 1, Len(t) - 1))
        IN /\ Candidate.outcome = "ok"
           /\ Candidate.currency = <<"£">>
           /\ Candidate.amount = Normalized(number[1], number[2] + 2)

\* What the function returns for 43p: 43.0 in the currency p
C28_PenceKept ==
    /\ JustCalled("extract_amount_currency")
    /\ last.key[1] = <<"4", "3", "p">>
    /\ Candidate = [outcome |-> "ok", amount |-> <<43, 0>>, currency |-> <<"p">>]

-----------------------------------------------------------------------------
(* C29: extract_amount_currency takes a comma inside the number as a         *)
(* thousands separator: for a text digits,digits followed by a currency code *)
(* it returns the number without the comma and the code as currency.         *)
C29_CommaIsThousandsSeparator ==
    (JustCalled("extract_amount_currency") /\ IsThousandsText(last.key[1])) =>
        LET text == last.key[1]
            e == DigitsEnd(text, DigitsEnd(text, 1) + 1)
            g == SpacesEnd(text, e)
        IN /\ Candidate.outcome = "ok"
           /\ Candidate.amount = float(replace_comma(SubSeq(text, 1, e - 1)))
           /\ Candidate.currency = SubSeq(text, g, Len(text))

\* What the function returns for 47,200 HUF: 47.0 in the currency ","
C29_CommaTakenAsCurrency ==
    /\ JustCalled("extract_amount_currency")
    /\ last.key[1] = <<"4", "7", ",", "2", "0", "0", " ", "H", "U", "F">>
    /\ Candidate = [outcome |-> "ok", amount |-> <<47, 0>>, currency |-> <<",">>]

-----------------------------------------------------------------------------
(* C30: extract_subscription_price returns terms with exactly one fee: for a *)
(* period text that is per year but for case and surrounding spaces only the *)
(* yearly fee is set, for per month only the monthly fee, and the result is  *)
(* that of the period text written plainly; for any other period text, and   *)
(* for an amount text without a digit, it raises an error and returns no     *)
(* terms.                                                                    *)
C30_OneFeeByPeriod ==
    JustCalled("extract_subscription_price") =>
        LET amount_text == last.key[1]
            period_text == last.key[2]
            terms == Candidate
        IN /\ terms.outcome = "ok" =>
                (terms.monthly_additional_price = <<>>)
                    # (terms.yearly_additional_price = <<>>)
           /\ terms.outcome # "ok" =>
                /\ terms.monthly_additional_price = <<>>
                /\ terms.yearly_additional_price = <<>>
           /\ IsPeriod(period_text, PerYear) =>
                /\ terms.monthly_additional_price = <<>>
                /\ terms = extract_subscription_price(amount_text, PerYear)
           /\ IsPeriod(period_text, PerMonth) =>
                /\ terms.yearly_additional_price = <<>>
                /\ terms = extract_subscription_price(amount_text, PerMonth)
           /\ (~IsPeriod(period_text, PerYear) /\ ~IsPeriod(period_text, PerMonth)) =>
                terms.outcome = "ValueError"
           /\ (\A i \in 1..Len(amount_text) : ~IsDigit(amount_text[i])) =>
                terms.outcome = "ValueError"

\* 47,200 HUF with the period written " per year ": the yearly fee alone,
\* 47200.0 HUF
C30_Witness ==
    /\ JustCalled("extract_subscription_price")
    /\ last.key[2] # PerYear
    /\ IsPeriod(last.key[2], PerYear)
    /\ IsSpace(last.key[2][1])
    /\ Candidate.outcome = "ok"
    /\ Candidate.monthly_additional_price = <<>>
    /\ Candidate.yearly_additional_price =
          << [outcome |-> "ok", amount |-> <<47200, 0>>,
              currency |-> <<"H", "U", "F">>] >>

-----------------------------------------------------------------------------
(* C31: both parsers raise an error, and return no Money and no              *)
(* SubscriptionTerms, for every text in which no numeric pattern is found:   *)
(* no two digits in a row and no digit, point, digit.                        *)

\* The text holds a number either pattern can match: two digits in a row, or
\* a digit, a point and a digit
HasNumericPattern(text) ==
    \E i \in 1..Len(text) :
        /\ IsDigit(text[i])
        /\ \/ i + 1 <= Len(text) /\ IsDigit(text[i + 1])
           \/ i + 2 <= Len(text) /\ text[i + 1] = "." /\ IsDigit(text[i + 2])

C31_NoNumberFails ==
    /\ (JustCalled("extract_amount_currency") /\ ~HasNumericPattern(last.key[1])) =>
          /\ last.outcome = "ValueError"
          /\ Candidate = Raised("ValueError")
    /\ (JustCalled("extract_subscription_price") /\ ~HasNumericPattern(last.key[1])) =>
          /\ last.outcome = "ValueError"
          /\ Candidate = NoTerms("ValueError")

\* A text with a currency and a single digit, and a valid period: no numeric
\* pattern, the call has raised
C31_Witness ==
    /\ JustCalled("extract_subscription_price")
    /\ last.key = << <<"€", "5">>, PerYear >>
    /\ ~HasNumericPattern(last.key[1])
    /\ last.outcome = "ValueError"
    /\ Candidate.yearly_additional_price = <<>>

-----------------------------------------------------------------------------
(* The scraper runs: the keys of the store *)

\* The keys that have a stored fact in store s
StoredKeys(s) ==
    { <<s[i].country, s[i].provider, s[i].pricing_model_name>> : i \in 1..Len(s) }

-----------------------------------------------------------------------------
(* C32: under one sequential writer that writes only through the scraper's   *)
(* read-then-insert-or-update flow, from an empty store and without crashes, *)
(* every key has at most one current fact after every step, for any sequence *)
(* of runs and observations, also when a run sees one plan name twice for    *)
(* one country.                                                              *)
C32_ScraperKeepsSingleCurrent ==
    \A k \in StoredKeys(store) : Cardinality(CurrentsOf(store, k)) <= 1

\* A run whose page lists the first plan twice has returned: the plan has one
\* archived and one current fact
C32_Witness ==
    /\ pc["run"] = "done"
    /\ Len(loc["run"].input[1]) = 2
    /\ loc["run"].input[1][1].pricing_model_name
          = loc["run"].input[1][2].pricing_model_name
    /\ Len(loc["run"].log) = 2
    /\ loc["run"].log[1].did = "insert_pricing"
    /\ loc["run"].log[2].did = "update_pricing"
    /\ loc["run"].log[2].outcome = "updated"
    /\ Cardinality(FactsOf(store, WriterKey["w1"])) = 2
    /\ Cardinality(CurrentsOf(store, WriterKey["w1"])) = 1

-----------------------------------------------------------------------------
(* C33: every stored fact with a non-null valid_to has valid_from <=         *)
(* valid_to, for any times of the insert and update calls under a clock that *)
(* does not go back, also for a fact inserted in the middle of an hour and   *)
(* superseded later in the same hour.                                        *)
C33_IntervalNotInverted ==
    \A i \in 1..Len(store) :
        store[i].valid_to # None => store[i].valid_from <= store[i].valid_to

\* A fact inserted in the middle of an hour and superseded in the same hour:
\* it ends before it begins
C33_InvertedInterval ==
    /\ JustCalled("update_pricing")
    /\ last.outcome = "updated"
    /\ \E i \in 1..Len(store) :
          /\ store[i].version = 1
          /\ store[i].valid_from = 1
          /\ store[i].valid_to = 0
          /\ FloorToHour(store[i].valid_from) = store[i].valid_to

-----------------------------------------------------------------------------
(* C34: within one key no two stored facts share a version number, also when *)
(* the key was left without a current fact (the process died between the     *)
(* archive write and the insert, or cleanup_old_models archived its current  *)
(* fact) and a later scraper run records a new observation for that key.     *)
C34_VersionsUnique ==
    \A k \in StoredKeys(store) : VersionsIdentifyFacts(store, k)

\* cleanup_old_models has archived the fact of a key and a later run has
\* inserted the key again: two facts of version 1
C34_VersionOneTwice ==
    /\ JustCalled("insert_pricing")
    /\ last.w = "run"
    /\ CurrentBefore = <<>>
    /\ \E i \in FactsOf(pre, last.key) : pre[i].version = 1 /\ pre[i].valid_to # None
    /\ store[Len(store)].version = 1

-----------------------------------------------------------------------------
(* C35: if the current fact of a key was loaded from a legacy document that  *)
(* carries only subscription_price = s, an observation with the same         *)
(* country, provider, plan name, currency and price_kWh, yearly fee s, no    *)
(* monthly fee and no initial_subscription_price, as the scraper builds it,  *)
(* is treated as unchanged: no archive is written, no version is created.    *)

\* The document find_one returns for the key of the last call is of the old
\* schema, and the observation states what it states
LegacyCurrentObserved ==
    LET i == find_one(pre, last.key[1], last.key[2], last.key[3]) IN
    /\ i # 0
    /\ "subscription_price" \in DOMAIN pre[i]
    /\ "yearly_subscription_price" \notin DOMAIN pre[i]
    /\ Candidate.currency = pre[i].currency
    /\ Candidate.price_kWh = pre[i].price_kWh
    /\ Candidate.yearly_subscription_price = pre[i].subscription_price
    /\ Candidate.monthly_subscription_price = None
    /\ Candidate.initial_subscription_price = None

C35_LegacyObservationUnchanged ==
    /\ (JustCalled("run_read") /\ LegacyCurrentObserved) =>
          last.outcome = "no_changes"
    /\ (last.w = "run" /\ last.op \in {"archive", "successor"}) =>
          ~LegacyCurrentObserved

\* The run has archived the legacy document and stored the same observation
\* as version 2
C35_LegacyArchived ==
    /\ JustCalled("successor")
    /\ last.w = "run"
    /\ Len(store) = 2
    /\ "subscription_price" \in DOMAIN store[1]
    /\ store[1].valid_to # None
    /\ store[2].version = 2
    /\ store[2].yearly_subscription_price = store[1].subscription_price
    /\ store[2].price_kWh = store[1].price_kWh

-----------------------------------------------------------------------------
(* C36: an update_pricing call that detects a change modifies exactly one    *)
(* existing document, the current fact of the candidate's key, and of it     *)
(* only valid_to; it adds exactly one new document; every other stored       *)
(* document, of this key or of another, is left as it was.                   *)
C36_ChangingUpdateTouchesTwo ==
    (JustCalled("update_pricing") /\ last.outcome = "updated") =>
        /\ Len(store) = Len(pre) + 1
        /\ \E i \in CurrentsOf(pre, last.key) :
              /\ store[i] # pre[i]
              /\ store[i].valid_to # None
              /\ store[i] = DictMerge(pre[i], [valid_to |-> store[i].valid_to])
              /\ \A j \in 1..Len(pre) : j # i => store[j] = pre[j]
        /\ \A j \in 1..Len(pre) : store[Len(store)]["_id"] # pre[j]["_id"]

\* A changing update on a collection that holds, besides the archived fact,
\* an earlier fact of the same key or a current fact of another key
C36_Witness ==
    /\ JustCalled("update_pricing")
    /\ last.outcome = "updated"
    /\ Len(pre) = 2
    /\ Len(store) = 3
    /\ \E i, j \in 1..2 :
          /\ i # j
          /\ store[i] # pre[i]
          /\ store[j] = pre[j]
          /\ pre[j].valid_to = None
          /\ KeyOf(pre[j]) # last.key

-----------------------------------------------------------------------------
(* C37: under a single writer, once the scraper has processed a validly      *)
(* assembled candidate without a store error, get_current_pricing for the    *)
(* candidate's key returns a fact whose country, provider, plan name,        *)
(* currency, price_kWh, monthly fee and yearly fee equal the candidate's,    *)
(* whether the key had no current fact, an equal one or a different one      *)
(* before.                                                                   *)

\* The run has finished with the candidate of the last step: it has inserted
\* it, has inserted its successor, or has found nothing to change
CandidateProcessed ==
    /\ last.w = "run"
    /\ \/ JustCalled("insert_pricing")
       \/ JustCalled("successor")
       \/ JustCalled("run_read") /\ last.outcome = "no_changes"
       \/ JustCalled("read") /\ last.outcome \in {"no_changes", "no_active_price"}

C37_CurrentMatchesObservation ==
    CandidateProcessed =>
        /\ ~get_current_pricing_raises(store, last.key[1], last.key[2], last.key[3])
        /\ \E cur \in {get_current_pricing(store, last.key[1], last.key[2], last.key[3])} :
              /\ cur # <<>>
              /\ EconomicallyIdentical(cur[1], Candidate)

\* A second run has found one plan unchanged after it has replaced the fact
\* of the other plan, both inserted by the first run
C37_Witness ==
    /\ JustCalled("run_read")
    /\ last.outcome = "no_changes"
    /\ Len(store) = 3
    /\ \E i \in 1..Len(store) :
          /\ store[i].version = 2
          /\ store[i].valid_to = None
          /\ KeyOf(store[i]) # last.key
          /\ \E j \in FactsOf(store, KeyOf(store[i])) :
                /\ store[j].version = 1
                /\ store[j].price_kWh # store[i].price_kWh
    /\ EconomicallyIdentical(
          get_current_pricing(store, last.key[1], last.key[2], last.key[3])[1],
          Candidate)

=============================================================================
